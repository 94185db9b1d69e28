-------------------------- MODULE MCMirrorSessions --------------------------
(* A page that names a file and a page, and then only the file.            *)
EXTENDS MirrorSessions

MCChanged == <<Links, {"root", "file"}>>
MCOutlinks == <<{"file", "page"}, {"file"}>>
=============================================================================
