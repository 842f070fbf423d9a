---------------------------- MODULE MCServerSingle ----------------------------
\* Instances of ServerSingle for TLC; the constants are numbers given in the cfgs.
EXTENDS ServerSingle
=============================================================================
