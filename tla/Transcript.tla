----------------------------- MODULE Transcript -----------------------------
(***************************************************************************)
(* What the transcript of a conversation promises, without goroutines,      *)
(* channels or streams: a log of questions and pieces of answers that only  *)
(* grows.  Several scribes (the watchers) may write down the same answer,   *)
(* but none of them writes a piece twice or goes back in an answer.         *)
(***************************************************************************)
EXTENDS Naturals, Sequences

CONSTANTS Msgs, Roles

VARIABLE log    \* rows with role, author, scribe and text, a sequence of numbered pieces

Init == log = << >>

\* Piece p is in the log.
Logged(p) == \E i \in DOMAIN log : \E j \in DOMAIN log[i].text : log[i].text[j] = p

\* Message m, of which the log knows nothing, is asked.
Ask(m) ==
    /\ \A i \in DOMAIN log : \A j \in DOMAIN log[i].text : log[i].text[j].msg # m
    /\ \E role \in Roles :
        log' = Append(log, [role |-> role, author |-> "user", by |-> m,
                            text |-> <<[msg |-> m, n |-> 0]>>])

\* The text consists of deltas of answers to logged questions; those of one answer come in
\* the order of their numbers.
Orderly(text) ==
    \A j \in DOMAIN text :
        /\ text[j].n > 0 /\ Logged([msg |-> text[j].msg, n |-> 0])
        /\ \A i \in DOMAIN text : i < j /\ text[i].msg = text[j].msg => text[i].n < text[j].n

\* In every answer the text goes on behind what scribe w has written of it.
GoesOn(w, text) ==
    \A i \in DOMAIN log : log[i].by = w =>
        \A l \in DOMAIN log[i].text, j \in DOMAIN text :
            log[i].text[l].msg = text[j].msg => log[i].text[l].n < text[j].n

\* Scribe w, whose own question is logged, writes down a part of what it heard.
Tell(w, text) ==
    /\ Logged([msg |-> w, n |-> 0])
    /\ text # << >> /\ Orderly(text) /\ GoesOn(w, text)
    /\ log' = Append(log, [role |-> "assistant", author |-> "agent", by |-> w,
                           text |-> text])

\* The log is longer by one row: a question, or what a scribe wrote down.
Next ==
    /\ Len(log') = Len(log) + 1
    /\ \/ \E m \in Msgs : Ask(m)
       \/ \E w \in Msgs : Tell(w, log'[Len(log')].text)

Spec == Init /\ [][Next]_log
=============================================================================
