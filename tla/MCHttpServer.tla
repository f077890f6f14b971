--------------------------- MODULE MCHttpServer ---------------------------
EXTENDS HttpServer, TLC

CONSTANTS c1, c2, c3
=============================================================================
