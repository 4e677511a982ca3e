----------------------------- MODULE Generation -----------------------------
(***************************************************************************)
(* Generating text one token at a time, as the decode loop without a draft *)
(* head does it: each token is drawn from the model's own row for all the  *)
(* tokens before it, with one random number each, in order; the client is  *)
(* sent what was drawn, in order, up to the limit and without the token    *)
(* that ends a text.  Drawing may run ahead of sending.                    *)
(***************************************************************************)
EXTENDS Naturals, Sequences

CONSTANTS Tokens, Eos, MaxTokens

VARIABLES
    prompt,     \* the tokens of the request
    stream,     \* the tokens drawn: its length counts the random numbers
    context,    \* what the row of the last draw was computed from
    sent        \* the tokens the client has

vars == <<prompt, stream, context, sent>>

Init ==
    /\ prompt \in Seq(Tokens)
    /\ stream = <<>> /\ context = <<>> /\ sent = <<>>

Draw(x) ==
    /\ stream' = Append(stream, x)
    /\ context' = prompt \o stream
    /\ UNCHANGED <<prompt, sent>>

Send ==
    /\ Len(sent) < Len(stream)
    /\ Len(sent) < MaxTokens
    /\ stream[Len(sent) + 1] # Eos
    /\ sent' = Append(sent, stream[Len(sent) + 1])
    /\ UNCHANGED <<prompt, stream, context>>

Next == Send \/ \E x \in Tokens : Draw(x)

Spec == Init /\ [][Next]_vars
=============================================================================
