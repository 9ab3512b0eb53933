------------------------------ MODULE MCModules ------------------------------
(* Every order of every selection of five modules that matter to each      *)
(* other, every order of two namesakes among others, and the whole         *)
(* directory, started at any module, forwards and backwards.               *)
EXTENDS Modules, FiniteSetsExt

Selected == {"bcdx", "mod0", "stk0", "map0", "dbi0"}
Videos   == {"dbm0", "dbv0", "mod0"}
Systems  == {"sys0", "vid0", "dbo0", "bcdx"}

Orders(S) == UNION {SetToSeqs(T) : T \in SUBSET S}

Shipped == <<"bcdx", "bio0", "cor0", "ctl0", "dbi0", "dbm0", "dbo0", "dbv0",
             "dev0", "gat0", "hol0", "ice0", "log0", "map0", "mod0", "pop0",
             "rwx0", "sec0", "stk0", "sys0", "thi0", "vid0">>
From(k, s) == SubSeq(s, k, Len(s)) \o SubSeq(s, 1, k - 1)

MCListings == UNION {Orders(Selected), Orders(Videos), Orders(Systems)}
              \cup {From(k, Shipped) : k \in 1..22}
              \cup {From(k, Reverse(Shipped)) : k \in 1..22}
==============================================================================
