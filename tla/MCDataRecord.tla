----------------------------- MODULE MCDataRecord -----------------------------
(* DataRecord with measurements on either side of every width.             *)
EXTENDS DataRecord

MCMeasurements == [count : {0, 7, 15, 16}, voltage : {0, 3, 21}, status : {0, 3, 6}]

=============================================================================
