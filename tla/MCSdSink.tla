------------------------------ MODULE MCSdSink ------------------------------
(* SdSink for TLC.                                                          *)
EXTENDS Loader

=============================================================================
