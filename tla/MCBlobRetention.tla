--------------------------- MODULE MCBlobRetention ---------------------------
(* An instance of BlobRetention for TLC: an attachment before an item that is   *)
(* always refused, so that every attempt stores it again, and a binary signal.  *)
EXTENDS BlobRetention

CONSTANTS j1, j2

Of(table, binary, size) == [table |-> table, binary |-> binary, size |-> size]

MCItems == [j \in Jobs |-> IF j = j1
  THEN <<Of("attachments", TRUE, "fits"), Of("attachments", FALSE, "empty")>>
  ELSE <<Of("signals", TRUE, "fits")>>]
=============================================================================
