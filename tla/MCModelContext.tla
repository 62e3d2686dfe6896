--------------------------- MODULE MCModelContext ---------------------------
(* A small instance of ModelContext for TLC.                               *)
EXTENDS ModelContext

\* Parallel calls around an opaque item and an empty text; an empty text
\* before an opaque item, that the replay places elsewhere; an answer after
\* an opaque item; and a reply with nothing to act on.
ReplyShapes ==
  {<<"call", "item", "blank", "call">>, <<"blank", "item", "text", "call">>,
   <<"item", "text">>, <<"item">>}
=============================================================================
