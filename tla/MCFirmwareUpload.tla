-------------------------- MODULE MCFirmwareUpload --------------------------
(* FirmwareUpload of a file whose lines end within, on and across a page,  *)
(* and run into the bootloader.                                            *)
EXTENDS FirmwareUpload

MCLine(first, words) == [first |-> first, words |-> words, last |-> FALSE]

MCFile == <<MCLine(0, 1), MCLine(1, 2), MCLine(3, 1), MCLine(4, 3),
            [first |-> 0, words |-> 0, last |-> TRUE]>>

(* It is one of those the theorem about FileInFlash speaks of.             *)
ASSUME MCFileAssumption == FileInOrder

=============================================================================
