--------------------------- MODULE MCStaticSniffer ---------------------------
(* StaticSniffer, with the values of the constants in the .cfg file.         *)
EXTENDS StaticSniffer
=============================================================================
