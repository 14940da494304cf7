------------------------------ MODULE MCRender ------------------------------
(***************************************************************************)
(* Prompts in which calls are answered in full, in part, late, twice or by *)
(* nobody.                                                                 *)
(***************************************************************************)
EXTENDS RenderedPrompt

Block(kind, id, text, inner) ==
  [kind |-> kind, id |-> id, text |-> text, inner |-> inner, err |-> FALSE]

Words(t)  == Block("text", "-", t, <<>>)
Call(id)  == Block("use", id, "input", <<>>)
Answer(id) == Block("result", id, "-",
                    <<Words("out"), Block("image", "-", "png", <<>>)>>)

Msg(role, blocks) == [role |-> role, blocks |-> blocks, cache |-> FALSE]

MCAlphabet ==
  {Msg("system", <<Words("sys")>>),
   Msg("user", <<Words("ask")>>),
   Msg("user", <<Words("more"), Answer("a")>>),
   Msg("tool", <<Answer("a")>>),
   Msg("tool", <<Answer("b")>>),
   Msg("user", <<>>),
   Msg("assistant", <<>>),
   Msg("assistant", <<Words("say")>>),
   Msg("assistant", <<Words("go"), Call("a"), Call("b")>>),
   Msg("assistant", <<Call("c"), Answer("a")>>)}
=============================================================================
