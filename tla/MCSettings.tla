----------------------------- MODULE MCSettings ------------------------------
(* The eight lines that give every field a value, with up to two odd lines *)
(* before, between or after them; and one of the eight left out, with up   *)
(* to one odd line.                                                        *)
EXTENDS Settings, SequencesExt

L(kind, key, value) == [kind |-> kind, key |-> key, value |-> value]

MCValues == {"a", "b"}

Whole == <<L("set", "module", "a"), L("set", "mydata", "a"),
           L("set", "temp", "a"), L("set", "logs", "a"),
           L("set", "server", "a"), L("set", "port", "a"),
           L("set", "listen", "a"), L("set", "timeout", "a")>>

Odd == {L("skip", "other", "a"), L("bad", "other", "a"),
        L("set", "other", "a"), L("dollar", "port", "b"),
        L("set", "client", "b"), L("set", "module", "b")}

Short  == {RemoveAt(Whole, i) : i \in 1..8}
Insert(files, places) ==
    {InsertAt(w, i, o) : w \in files, i \in places, o \in Odd}

MCTexts == {Whole} \cup Short \cup Insert(Short, {1, 5})
           \cup Insert({Whole}, {1, 5, 9})
           \cup Insert(Insert({Whole}, {2, 6}), {1, 6, 10})
=============================================================================
