---------------------------- MODULE MCBlobUpload ----------------------------
(* Values for TLC: a blob as one chunk, in chunks of one byte and of two.  *)
EXTENDS BlobUpload

MCPushChunks == {-1, 1, 2}
=============================================================================
