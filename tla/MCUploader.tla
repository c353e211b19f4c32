----------------------------- MODULE MCUploader -----------------------------
(* Two workers, two ASNs of which the database knows one.                  *)
EXTENDS Uploader
=============================================================================
