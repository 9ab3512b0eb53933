------------------------------ MODULE Settings -------------------------------
(* From the text of server.conf, once it is in memory, to the settings the *)
(* server runs with: the lines are read into fields, the directories may   *)
(* be replaced, five of them go to the environment list, and the first use *)
(* of a field that has no value ends the process.                          *)
(*                                                                         *)
(* A line is of a kind:  "skip"    four bytes at most, or a comment        *)
(*                       "set"     key = value                             *)
(*                       "dollar"  the same behind a $                     *)
(*                       "bad"     neither a comment nor an assignment     *)
EXTENDS Naturals, Sequences, FiniteSets

CONSTANTS Texts,   \* texts: sequences of lines [kind, key, value]
          Values,  \* what a field may be set to
          Sets     \* BOUND: calls of _envp_set

NoValue == "none"

Variables == {"module", "mydata", "temp", "logs", "server", "client", "port",
              "listen", "timeout"}
Lines == [kind : {"skip", "set", "dollar", "bad"},
          key : Variables \cup {"other"}, value : Values]

ASSUME SettingsAssumption == Texts \subseteq Seq(Lines) /\ NoValue \notin Values

Names == {"epath", "modules", "mydata", "temp", "logs"}

(* A key is looked up by the beginning of the line, in this order; server  *)
(* and client are one field.                                               *)
Fields == {"modules", "mydata", "temp", "logs", "address", "port", "listen",
           "timeout"}

Field(key) == CASE key = "module" -> "modules"
                [] key \in {"server", "client"} -> "address"
                [] OTHER -> key

VARIABLES
    spc,       \* "read", "loaded", "adding", "modules", "socket", "serving",
               \* "dead", "astray"
    buff,      \* the text
    line,      \* lines read
    skew,      \* how far the buffer pointer has been moved
    settings,  \* [Fields -> value]
    opt_cfg,   \* -k: the installed configuration
    opt_srv,   \* -s: the socket mode
    envp,      \* the environment list, as far as its count goes
    tail,      \* what its last entry has for a next one: "null" or "wild"
    sets,      \* calls of _envp_set so far
    last       \* HISTORY: what each name was set to last

options == <<opt_cfg, opt_srv>>
list    == <<envp, tail, sets, last>>
state == <<spc, buff, line, skew, settings, options, list>>

SettingsInit ==
    /\ spc = "read" /\ buff \in Texts /\ line = 0 /\ skew = 0
    /\ settings = [f \in Fields |-> NoValue]
    /\ opt_cfg \in BOOLEAN /\ opt_srv \in BOOLEAN
    /\ envp = <<>> /\ tail = "null" /\ sets = 0
    /\ last = [n \in Names |-> NoValue]
-----------------------------------------------------------------------------
(* _conf_readline, cserver_mod and _conf_copy: one line.                   *)
Line == buff[line + 1]

\* MUTANT of Assign: a field that has a value keeps it.
Assign_first(l) ==
    IF l.key = "other" \/ settings[Field(l.key)] # NoValue THEN settings
    ELSE [settings EXCEPT ![Field(l.key)] = l.value]

Assign(l) == IF l.key = "other" THEN settings
             ELSE [settings EXCEPT ![Field(l.key)] = l.value]

ReadLine ==
    /\ spc = "read" /\ line < Len(buff) /\ Line.kind # "bad"
    /\ line' = line + 1
    /\ settings' = IF Line.kind = "skip" THEN settings ELSE Assign(Line)
    /\ skew' = IF Line.kind = "dollar" THEN skew + 1 ELSE skew
    /\ UNCHANGED <<spc, buff, options, list>>

(* A line without = ends the reading; neither buffer is freed, and what it *)
(* returns is ignored: the file counts as loaded.                          *)
Stop ==
    /\ spc = "read" /\ line < Len(buff) /\ Line.kind = "bad"
    /\ spc' = "loaded"
    /\ UNCHANGED <<buff, line, skew, settings, options, list>>

(* At the end of the text the buffer is freed, by a pointer that a line    *)
(* with a $ has moved.                                                     *)
EndOfText ==
    /\ spc = "read" /\ line = Len(buff)
    /\ spc' = IF skew > 0 THEN "dead" ELSE "loaded"
    /\ UNCHANGED <<buff, line, skew, settings, options, list>>
-----------------------------------------------------------------------------
(* The environment list. Only the first entry is given a null pointer for  *)
(* its next one: what a later entry has there is what its memory held.     *)
Matches(name) == {i \in 1..Len(envp) : envp[i].name = name}
First(name)   == CHOOSE i \in Matches(name) : \A j \in Matches(name) : i <= j

Entry(n, v) == [name |-> n, value |-> v]

(* A walk of count entries.                                                *)
_envp_get(name) == IF Matches(name) = {} THEN NoValue ELSE envp[First(name)].value

\* MUTANT of _envp_add: the first entry is left as it comes, too.
_envp_add_unset(entries, name, value, next) ==
    \/ /\ entries # <<>> /\ tail = "wild"
       /\ spc' = "astray" /\ envp' = entries /\ UNCHANGED tail
    \/ /\ entries = <<>> \/ tail = "null"
       /\ spc' = next /\ envp' = Append(entries, Entry(name, value))
       /\ tail' \in {"null", "wild"}

(* The walk to the end goes by the pointers. Where one is wild it reads    *)
(* memory that is no entry and links the new one there, if it ever comes   *)
(* to a null: the process is not followed any further.                     *)
_envp_add(entries, name, value, next) ==
    \/ /\ entries # <<>> /\ tail = "wild"
       /\ spc' = "astray" /\ envp' = entries /\ UNCHANGED tail
    \/ /\ entries = <<>> \/ tail = "null"
       /\ spc' = next /\ envp' = Append(entries, Entry(name, value))
       /\ tail' \in IF entries = <<>> THEN {"null"} ELSE {"null", "wild"}

\* MUTANT of Changed: no entry is changed, one is only added.
Changed_none(name, value) == envp

Changed(name, value) ==
    IF Matches(name) = {} THEN envp
    ELSE [envp EXCEPT ![First(name)].value = value]

(* The first entry is changed, and then another one is added all the same. *)
_envp_set(name, value) == _envp_add(Changed(name, value), name, value, spc)

Set(name, value) ==
    /\ spc = "serving" /\ sets < Sets
    /\ _envp_set(name, value)
    /\ sets' = sets + 1 /\ last' = [last EXCEPT ![name] = value]
    /\ UNCHANGED <<buff, line, skew, settings, options>>
-----------------------------------------------------------------------------
(* load_config: without -k the four directories are those under the        *)
(* current one, whatever the file says.                                    *)
Here(f) == IF f \in {"modules", "mydata", "temp", "logs"} THEN "here"
           ELSE settings[f]

load_config ==
    /\ spc = "loaded"
    /\ settings' = IF opt_cfg THEN settings ELSE [f \in Fields |-> Here(f)]
    /\ spc' = "adding"
    /\ UNCHANGED <<buff, line, skew, options, list>>

(* Then it puts five of them on the list, one after the other.             *)
Added == <<"epath", "modules", "mydata", "temp", "logs">>

Added_value(n) == IF n # "epath" THEN settings[n]
                  ELSE IF opt_cfg THEN "null" ELSE "here"

AddSetting ==
    /\ spc = "adding"
    /\ LET k == Len(envp) + 1
           n == Added[k]
       IN  /\ _envp_add(envp, n, Added_value(n),
                        IF k = Len(Added) THEN "modules" ELSE "adding")
           /\ last' = [last EXCEPT ![n] = Added_value(n)]
    /\ UNCHANGED <<buff, line, skew, settings, options, sets>>

(* The value of a field without a buffer is a null pointer: opendir,       *)
(* strcpy, strncmp and atoi follow it.                                     *)
UsedByModules == {"modules", "mydata", "temp", "logs"}
UsedBySocket  == {"port", "address", "listen"}

Missing(used) == \E f \in used : settings[f] = NoValue

\* main looks for the modules, and the shipped ones copy their folders.
LoadModules ==
    /\ spc = "modules"
    /\ spc' = IF Missing(UsedByModules) THEN "dead"
              ELSE IF opt_srv THEN "socket" ELSE "serving"
    /\ UNCHANGED <<buff, line, skew, settings, options, list>>

\* libsck_server
BeginSocket ==
    /\ spc = "socket"
    /\ spc' = IF Missing(UsedBySocket) THEN "dead" ELSE "serving"
    /\ UNCHANGED <<buff, line, skew, settings, options, list>>

(* libsck_callback, when the first connection has been accepted.           *)
FirstConnection ==
    /\ spc = "serving" /\ opt_srv /\ settings["timeout"] = NoValue
    /\ spc' = "dead"
    /\ UNCHANGED <<buff, line, skew, settings, options, list>>
-----------------------------------------------------------------------------
SettingsNext == \/ ReadLine \/ Stop \/ EndOfText \/ load_config
        \/ AddSetting \/ LoadModules \/ BeginSocket \/ FirstConnection
        \/ \E n \in Names, v \in Values : Set(n, v)

SettingsSpec == SettingsInit /\ [][SettingsNext]_state
-----------------------------------------------------------------------------
(* The lines before the first bad one; of those, the ones for a field.     *)
Bad      == {n \in 1..Len(buff) : buff[n].kind = "bad"}
Taken    == {n \in 1..Len(buff) : \A b \in Bad : n < b}
For(f)   == {n \in Taken : /\ buff[n].kind \in {"set", "dollar"}
                           /\ buff[n].key # "other" /\ Field(buff[n].key) = f}
Moved    == \E n \in Taken : buff[n].kind = "dollar"

(* A server that takes requests runs with what its file says: of the lines *)
(* before the first one without = the last for each field, server and      *)
(* client being one, save the directories when it was started without -k.  *)
RunsWithTheFile ==
    spc = "serving" =>
        \A f \in Fields :
            settings[f] =
                IF ~opt_cfg /\ f \in UsedByModules THEN "here"
                ELSE IF For(f) = {} THEN NoValue
                ELSE buff[CHOOSE n \in For(f) : \A m \in For(f) : m <= n].value

(* The server dies of its file for one of two reasons: a $ line was taken  *)
(* and no bad line follows it, or a field it uses has no line before the   *)
(* first bad one.                                                          *)
DiesOfItsFile ==
    spc = "dead" =>
        \/ Moved /\ Bad = {}
        \/ opt_cfg /\ \E f \in UsedByModules : For(f) = {}
        \/ opt_srv /\ \E f \in UsedBySocket \cup {"timeout"} : For(f) = {}

(* Unless it is lost in the environment list: whether the server gets to   *)
(* serve, and with what, follows from its file and its options alone.      *)
FileDecides == RunsWithTheFile /\ DiesOfItsFile

(* A process can be lost in the list only at its third entry or a later    *)
(* one: a program that adds one, as crmicp does, or two is never lost.     *)
TwoEntriesAreSafe == spc = "astray" => Len(envp) >= 2

(* Whoever asks for a name, at any time until the process is lost, finds   *)
(* what was set last under it, although every call adds an entry: the      *)
(* entries added are never seen, nor is what the last one points to.       *)
SetIsSeen ==
    spc # "astray" => \A n \in Names : _envp_get(n) = last[n]
=============================================================================
