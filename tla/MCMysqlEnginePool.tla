------------------------- MODULE MCMysqlEnginePool -------------------------
(* Two connections for reading, one or two for writing.                     *)
EXTENDS MysqlEnginePool, TLC

CONSTANTS r1, r2, w1, w2

OneRead == <<r1>>
TwoReads == <<r1, r2>>
OneWrite == <<w1>>
TwoWrites == <<w1, w2>>
=============================================================================
