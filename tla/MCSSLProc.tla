---------------------------- MODULE MCSSLProc ----------------------------
(* Small instances of SSLProc.                                            *)
EXTENDS SSLProc

CONSTANTS ssl, plain

=============================================================================
