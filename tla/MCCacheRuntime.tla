--------------------------- MODULE MCCacheRuntime ---------------------------
(***************************************************************************)
(* Two requests whose prompts share their first page, two layers, pages of *)
(* two tokens, segments of two pages.  There is room for both requests and *)
(* for one copied tail, and the index holds one page of each layer.  The   *)
(* first request only fills its prompt, the second one generates a token.  *)
(***************************************************************************)
EXTENDS CacheRuntime

Two == 1 .. 2
MCSegments == 1 .. 5
MCStream == <<<<"a", "b", "c", "d">>, <<"a", "b", "d", "d">>>>
MCPrompt == <<4, 3>>
=============================================================================
