----------------------------- MODULE Completion -----------------------------
(***************************************************************************)
(* The text of a model's reply: thinkParser of internal/ai/client.go takes *)
(* a leading block of reasoning out of it while it arrives.                *)
(*                                                                         *)
(* The provider cuts the text into deltas wherever it likes.  A tag is     *)
(* shortened to a few symbols: the closing one is longer and begins and    *)
(* ends like the opening one, as in the code.                              *)
(***************************************************************************)
EXTENDS Naturals, Sequences, FiniteSetsExt, SequencesExt

CONSTANT MaxText   \* bound: symbols of the text

Blank   == " "
Open    == <<"<", ">">>        \* thinkOpen
Close   == <<"<", "/", ">">>   \* thinkClose
Symbols == {Blank, "<", "/", ">"}

VARIABLES
    parser,   \* thinkParser, with what it has passed on
    text      \* history: what has been fed to it

vars == <<parser, text>>

TypeOK ==
    /\ parser.state \in {"detecting", "inside", "normal"}
    /\ {parser.buf, parser.content, parser.reasoning, text} \subseteq Seq(Symbols)

Fresh == [state |-> "detecting", buf |-> << >>, content |-> << >>, reasoning |-> << >>]

Init == parser = Fresh /\ text = << >>
-----------------------------------------------------------------------------
From(s, i) == SubSeq(s, i, Len(s))
Trim(s) == LET solid == {i \in DOMAIN s : s[i] # Blank}
           IN  IF solid = {} THEN << >> ELSE From(s, Min(solid))
Places(s, tag) == {i \in DOMAIN s : IsPrefix(tag, From(s, i))}

(* The states of feed: each either waits for more or hands on to the next. *)
Normal(p, b) == [p EXCEPT !.state = "normal", !.buf = << >>, !.content = @ \o b]

Kept_TooLittle == Len(Close) - 2
Kept == Len(Close) - 1   \* what may be the beginning of a closing tag

Inside(p, b) ==
    IF Places(b, Close) # {}
      THEN LET i == Min(Places(b, Close))
           IN  Normal([p EXCEPT !.reasoning = @ \o SubSeq(b, 1, i - 1)],
                      From(b, i + Len(Close)))
      ELSE LET cut == IF Len(b) > Kept THEN Len(b) - Kept ELSE 0
           IN  [p EXCEPT !.state = "inside", !.buf = From(b, cut + 1),
                         !.reasoning = @ \o SubSeq(b, 1, cut)]

Detecting(p, b) ==
    LET t == Trim(b)
    IN  CASE IsPrefix(Open, t) -> Inside(p, From(t, Len(Open) + 1))
          [] t = << >> \/ IsStrictPrefix(t, Open) -> [p EXCEPT !.buf = b]
          [] OTHER -> Normal(p, b)

Feed(p, chunk) ==
    LET b == p.buf \o chunk
    IN  CASE p.state = "detecting" -> Detecting(p, b)
          [] p.state = "inside" -> Inside(p, b)
          [] p.state = "normal" -> Normal(p, b)

Flush(p) ==
    IF p.state = "inside" THEN [p EXCEPT !.reasoning = @ \o p.buf, !.buf = << >>]
    ELSE [p EXCEPT !.content = @ \o p.buf, !.buf = << >>]

Delta(chunk) ==
    /\ parser' = Feed(parser, chunk) /\ text' = text \o chunk

Next == \E n \in 1..MaxText - Len(text) : \E chunk \in [1..n -> Symbols] : Delta(chunk)

Spec == Init /\ [][Next]_vars
-----------------------------------------------------------------------------
(* The parse of a whole text *)
Whole ==
    LET t == Trim(text)
        r == From(t, Len(Open) + 1)
        i == Min(Places(r, Close))
    IN  CASE ~IsPrefix(Open, t) -> [content |-> text, reasoning |-> << >>]
          [] IsPrefix(Open, t) /\ Places(r, Close) = {} ->
                [content |-> << >>, reasoning |-> r]
          [] OTHER -> [content |-> From(r, i + Len(Close)),
                       reasoning |-> SubSeq(r, 1, i - 1)]

(* However the provider cuts the text into deltas, through the middle of a *)
(* tag or not, a reply that ends here is parsed as if it had come at once. *)
CutsDontMatter ==
    LET done == Flush(parser)
    IN  done.content = Whole.content /\ done.reasoning = Whole.reasoning
=============================================================================
