--------------------------- MODULE MCAnnotations ---------------------------
EXTENDS Annotations

CONSTANTS h1, h2, t1
=============================================================================
