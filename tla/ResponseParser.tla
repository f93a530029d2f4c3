-------------------------- MODULE ResponseParser --------------------------
(***************************************************************************)
(* What the user gets to read of an answer of the LLM: ParseLLMResponseSafe*)
(* and its last resort, SanitizeFallbackPublicText.                        *)
(*                                                                         *)
(* An answer is a sequence of lines, each of a kind:                       *)
(*   "open", "close"  the braces of the object      "fence"  a ``` line    *)
(*   "monologue"  the line with the key inner_monologue                    *)
(*   "thought"    a further line of the monologue's text                   *)
(*   "public"     public_response with its text    "blank"  without text   *)
(*   "cut"        public_response, the answer ending within its text       *)
(*   "prose"      anything else                                            *)
(* Escapes and commas are left out, and an answer names public_response at *)
(* most once.                                                              *)
(***************************************************************************)
EXTENDS Integers, Sequences, Functions, FiniteSets

Lines == {"open", "close", "fence", "monologue", "thought", "public", "blank", "cut", "prose"}

(* What Chat stores when nothing is left: "No tengo una respuesta ...".    *)
NoReply == <<"no reply">>

(* CleanLLMJSONResponse: a fence at either end goes.                       *)
Unfenced(answer) ==
    LET from == IF answer # <<>> /\ Head(answer) = "fence" THEN 2 ELSE 1
        to   == IF Len(answer) >= from /\ answer[Len(answer)] = "fence"
                THEN Len(answer) - 1 ELSE Len(answer)
    IN  SubSeq(answer, from, to)

IsObject(lines) ==
    lines # <<>> /\ Head(lines) = "open" /\ lines[Len(lines)] = "close"

(* What is left of the lines without those of a kind, in their order.      *)
Without(lines, kind) ==
    LET rest   == {i \in DOMAIN lines : lines[i] # kind}
        nth(n) == CHOOSE i \in rest : Cardinality({k \in rest : k <= i}) = n
    IN  [n \in 1..Cardinality(rest) |-> lines[nth(n)]]

(* The fallback drops the lines that name the monologue and echoes the     *)
(* rest, unless that is an object.                                         *)
Sanitized(answer) ==
    LET rest == Without(Unfenced(answer), "monologue")
    IN  IF IsObject(rest) THEN <<>> ELSE rest

(* A public text that is whole is found wherever it stands: in the first   *)
(* object if that can be parsed, and by the regular expression if not.     *)
ReplyTo(answer) ==
    IF "public" \in Range(answer) THEN <<"public">>
    ELSE IF Sanitized(answer) = <<>> THEN NoReply
    ELSE Sanitized(answer)

(* An answer that the LLM's limit of tokens ends before it is whole, which *)
(* the client does not look for.                                           *)
CutOff(answer) ==
    LET heads == {SubSeq(answer, 1, n) : n \in 0..Len(answer)}
    IN  heads \cup {[h EXCEPT ![Len(h)] = "cut"] :
                      h \in {g \in heads : g # <<>> /\ g[Len(g)] = "public"}}
=============================================================================
