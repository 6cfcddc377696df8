------------------------- MODULE UploadOverwriteMC --------------------------
(* Two uploads of one content to a bucket that ignores If-None-Match.        *)
EXTENDS MultipartUpload
=============================================================================
