--------------------------- MODULE MCHttpResponse ---------------------------
(* Instances of HttpResponse for TLC; the .cfg gives the numbers.           *)
EXTENDS HttpResponse
=============================================================================
