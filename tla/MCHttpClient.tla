---------------------------- MODULE MCHttpClient ----------------------------
(***************************************************************************)
(* Responses for the model checker: one of two chunks, one of a length,    *)
(* one without content, two that are refused on their status line, and one *)
(* whose chunk size does not fit an int.                                   *)
(***************************************************************************)
EXTENDS HttpClient

U(k, n) == [k |-> k, n |-> n]
LineEnd == <<U("cr", 0), U("lf", 0)>>

MCChunked ==
  <<U("status", 200), U("chunked", 0), U("size", 2), U("byte", 1), U("byte", 2)>> \o LineEnd
    \o <<U("size", 1), U("byte", 3)>> \o LineEnd \o <<U("size", 0)>>
MCLength == <<U("status", 200), U("length", 3), U("byte", 1), U("byte", 2), U("byte", 3)>>
MCEmpty == <<U("status", 200), U("empty", 0)>>
MCNotFound == <<U("status", 404), U("empty", 0)>>
MCNotHttp == <<U("status", 0)>>
MCHuge == <<U("status", 200), U("chunked", 0), U("size", 7), U("byte", 1)>>

MCResponses == {MCChunked, MCLength, MCEmpty, MCNotFound, MCNotHttp, MCHuge}
=============================================================================
