---------------------------- MODULE MCWebServer ----------------------------
(* Small instances of WebServer. *)
EXTENDS WebServer

\* Long URLs of the pieces that normalisation is about, short ones of all.
MCUrls ==
  BoundedSeq({"/", "..", "x"}, 6)
    \cup BoundedSeq({"/", ".", "..", "x", "%2f", "%2e", "%00", "?"}, 4)

MCPages == {<<IndexHtml>>, <<<<"x">>>>}
=============================================================================
