--------------------------- MODULE MCBrowserStream ---------------------------
(* BrowserStream for TLC: one tab, whose bounds the configuration gives. *)
EXTENDS BrowserStream
=============================================================================
