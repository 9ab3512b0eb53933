------------------------------- MODULE Confile ------------------------------
(* A configuration file and the three programs that read or rewrite it:    *)
(* crenconf encodes it in place, crdeconf decodes it in place, and a       *)
(* server loads it (_conf_load), plain or encoded.  An administrator runs  *)
(* crenconf and crdeconf one after the other; a load may come at any time. *)
(* A program may be killed between two of its system calls, and a write    *)
(* may fail or be short.                                                   *)
(*                                                                         *)
(* Hashes, cipher and compression do what they are for.  The cipher's key  *)
(* and its start are digests of the text, kept in the header beside the    *)
(* hash of the code: a body decodes under any header of the same text,     *)
(* whatever the codes, and fails the test of its last bytes otherwise.     *)
EXTENDS Naturals

CONSTANTS Codes,   \* values of the option -c
          Long,    \* those of eight characters or more
          Behind,  \* what may follow the option in memory
          Runs     \* BOUND: how often a program is started

None == "none"

ASSUME ConfileAssumption == Long \subseteq Codes /\ None \notin Codes /\ Runs \in Nat

(* libmsx hashes sizeof(keys) bytes of the code: the size of the pointer.  *)
(* A short code is followed by what lies behind it.                        *)
Key(code, behind) == IF code \in Long THEN <<code, None>> ELSE <<code, behind>>
Keys == {Key(c, b) : c \in Codes, b \in Behind}

(* What is in the file, and what of it.  "conf" is the configuration with  *)
(* its line [settings], "msx" an encoded file.                             *)
NoKey  == <<None, None>>
Plain(text) == [kind |-> "plain", text |-> text, key |-> NoKey]
Coded(text, key)  == [kind |-> "coded",   text |-> text, key |-> key]
Header(text, key) == [kind |-> "header",  text |-> text, key |-> key]
Cut(text, key)    == [kind |-> "cut",     text |-> text, key |-> key]
Empty == [kind |-> "empty", text |-> None, key |-> NoKey]
Junk  == [kind |-> "junk",  text |-> None, key |-> NoKey]
Files == [kind : {"plain", "coded", "header", "cut", "empty", "junk"},
          text : {"conf", "part", "msx", None}, key : Keys \cup {NoKey}]

HasSettings(f) == f.kind = "plain" /\ f.text \in {"conf", "part"}
HasHeader(f)   == f.kind \in {"coded", "header", "cut"}

VARIABLES
    file,     \* the file
    wpc,      \* crenconf or crdeconf: "idle", "encode", "e_header", "e_body",
              \* "decode", "d_write"
    mem,      \* what it is about to write
    wkey,     \* its key
    lpc,      \* the load: "idle", "header", "body"
    first,    \* the file as it was when the load read the header
    result,   \* of the latest load: "fail", "conf", "part", "nothing"
    runs,     \* programs started
    accident, \* HISTORY: a writer was killed, a write failed or was short
    overlap   \* HISTORY: what was at work during the latest load,
              \* of "encode" and "decode"

writer == <<wpc, mem, wkey>>
loader == <<lpc, first, result, overlap>>
vars   == <<file, writer, loader, runs, accident>>

Init ==
    /\ file = Plain("conf")
    /\ wpc = "idle" /\ mem = Empty /\ wkey = NoKey
    /\ lpc = "idle" /\ first = Empty /\ result = "fail"
    /\ runs = 0 /\ accident = FALSE /\ overlap = {}

Starts == runs < Runs /\ runs' = runs + 1

(* The program that is at work when the writer stands there.               *)
Program(pc) == CASE pc \in {"encode", "e_header", "e_body"} -> {"encode"}
                 [] pc \in {"decode", "d_write"} -> {"decode"}
                 [] OTHER -> {}

Overlapped ==
    overlap' = IF lpc = "idle" THEN overlap
               ELSE overlap \cup Program(wpc) \cup Program(wpc')
-----------------------------------------------------------------------------
\* MUTANT of Encodable: an encoded file is encoded once more.
Encodable_any(f) == f.kind # "empty"

(* An empty file cannot be read, one without [settings] is encoded already. *)
Encodable(f) == HasSettings(f)

TextOf(f) == IF f.kind = "plain" THEN f.text ELSE "msx"

(* crenconf reads the whole file and encodes it in memory.                 *)
EncodeStart(code, behind) ==
    /\ wpc = "idle" /\ Starts /\ Encodable(file)
    /\ wpc' = "encode" /\ wkey' = Key(code, behind)
    /\ mem' = Coded(TextOf(file), wkey')
    /\ Overlapped
    /\ UNCHANGED <<file, lpc, first, result, accident>>

EncodeTruncate ==
    /\ wpc = "encode"
    /\ file' = Empty /\ wpc' = "e_header"
    /\ Overlapped
    /\ UNCHANGED <<mem, wkey, lpc, first, result, runs, accident>>

EncodeHeader ==
    /\ wpc = "e_header"
    /\ file' = Header(mem.text, mem.key) /\ wpc' = "e_body"
    /\ Overlapped
    /\ UNCHANGED <<mem, wkey, lpc, first, result, runs, accident>>

EncodeBody ==
    /\ wpc = "e_body"
    /\ file' = mem /\ wpc' = "idle"
    /\ Overlapped
    /\ UNCHANGED <<mem, wkey, lpc, first, result, runs, accident>>
-----------------------------------------------------------------------------
KeyMatches(f, key) == f.key = key

(* crdeconf refuses a file with [settings], one without a whole header or  *)
(* with nothing after it, and one with another key.  Whether the body      *)
(* decodes does not matter: the result of libc0_decrypt is not looked at,  *)
(* and the memory it leaves untouched is written back.                     *)
Decodable(f, key) == f.kind \in {"coded", "cut"} /\ KeyMatches(f, key)

DecodeStart(code, behind) ==
    /\ wpc = "idle" /\ Starts
    /\ Decodable(file, Key(code, behind))
    /\ wpc' = "decode" /\ wkey' = Key(code, behind)
    /\ mem' = IF file.kind = "coded" THEN Plain(file.text) ELSE Junk
    /\ Overlapped
    /\ UNCHANGED <<file, lpc, first, result, accident>>

DecodeTruncate ==
    /\ wpc = "decode"
    /\ file' = Empty /\ wpc' = "d_write"
    /\ Overlapped
    /\ UNCHANGED <<mem, wkey, lpc, first, result, runs, accident>>

DecodeWrite ==
    /\ wpc = "d_write"
    /\ file' = mem /\ wpc' = "idle"
    /\ Overlapped
    /\ UNCHANGED <<mem, wkey, lpc, first, result, runs, accident>>

(* Either of them is started and refuses.                                  *)
Refused(code, behind) ==
    /\ wpc = "idle" /\ Starts
    /\ ~Encodable(file) \/ ~Decodable(file, Key(code, behind))
    /\ UNCHANGED <<file, writer, loader, accident>>

(* It is killed, or a write fails, where it stands.                        *)
Stopped ==
    /\ wpc # "idle"
    /\ wpc' = "idle" /\ accident' = TRUE
    /\ UNCHANGED <<file, mem, wkey, loader, runs>>

(* A write is short: only nothing written at all is an error.              *)
ShortWrite ==
    /\ \/ wpc = "e_body" /\ file' = Cut(mem.text, mem.key)
       \/ /\ wpc = "d_write"
          /\ file' = IF mem = Plain("conf") THEN Plain("part") ELSE mem
    /\ wpc' = "idle" /\ accident' = TRUE
    /\ Overlapped
    /\ UNCHANGED <<mem, wkey, lpc, first, result, runs>>
-----------------------------------------------------------------------------
\* MUTANT of LoadsPlain: every file is taken for an encoded one.
LoadsPlain_never(f) == FALSE

LoadsPlain(f) == HasSettings(f)

LoadStart ==
    /\ lpc = "idle" /\ Starts
    /\ overlap' = Program(wpc)
    /\ IF LoadsPlain(file)
       THEN result' = file.text /\ UNCHANGED lpc
       ELSE IF file.kind = "empty" THEN result' = "fail" /\ UNCHANGED lpc
            ELSE lpc' = "header" /\ UNCHANGED result
    /\ UNCHANGED <<file, writer, first, accident>>

(* The key of the file is in its header: the load needs no code.           *)
LoadHeader ==
    /\ lpc = "header"
    /\ IF file.kind = "empty" THEN result' = "fail" /\ lpc' = "idle"
                              ELSE lpc' = "body" /\ UNCHANGED result
    /\ first' = file
    /\ UNCHANGED <<file, writer, runs, accident, overlap>>

(* The header's digests are those of the body's text.                      *)
Belongs(body, header) ==
    HasHeader(header) /\ body.kind = "coded" /\ body.text = header.text

(* Nothing behind the header is an error; a body that does not belong to   *)
(* the header is not: the load succeeds with no setting, or, where what    *)
(* was read as a header is none, may fail for want of memory.  Part of a   *)
(* text may end before the place of the body, and two parts may differ.    *)
LoadBody ==
    /\ lpc = "body"
    /\ lpc' = "idle"
    /\ \/ /\ file.kind \in {"empty", "header"} \/ file = Plain("part")
          /\ result' = "fail"
       \/ Belongs(file, first) /\ result' = file.text
       \/ /\ file.kind \notin {"empty", "header"}
          /\ Belongs(file, first) => file.text = "part" /\ file # first
          /\ result' = "nothing" \/ (~HasHeader(first) /\ result' = "fail")
    /\ UNCHANGED <<file, writer, first, runs, accident, overlap>>
-----------------------------------------------------------------------------
Next ==
    \/ \E c \in Codes, b \in Behind :
           EncodeStart(c, b) \/ DecodeStart(c, b) \/ Refused(c, b)
    \/ EncodeTruncate \/ EncodeHeader \/ EncodeBody
    \/ DecodeTruncate \/ DecodeWrite
    \/ Stopped \/ ShortWrite
    \/ LoadStart \/ LoadHeader \/ LoadBody

Spec == Init /\ [][Next]_vars
-----------------------------------------------------------------------------
Keyed(f) == f.key \in Keys <=> HasHeader(f)

TypeOK ==
    /\ {file, mem, first} \subseteq {f \in Files : Keyed(f)}
    /\ wpc \in {"idle", "encode", "e_header", "e_body", "decode", "d_write"}
    /\ wkey \in Keys \cup {NoKey}
    /\ lpc \in {"idle", "header", "body"}
    /\ result \in {"fail", "conf", "part", "nothing"}
    /\ runs \in 0..Runs
    /\ accident \in BOOLEAN /\ overlap \subseteq {"encode", "decode"}

(* The configuration survives any sequence of encodings and decodings,     *)
(* repeated, refused or with wrong codes, unless a program was stopped     *)
(* half-way or a write fell short.                                         *)
Survives ==
    ~accident /\ wpc = "idle" => file.kind \in {"plain", "coded"} /\ file.text = "conf"

(* A file encoded with one key is touched by no decoding with another one, *)
(* in whatever state an accident has left it.                              *)
OtherKeyTouchesNothing ==
    [][wpc = "decode" /\ wpc' = "d_write" => file.key = wkey]_vars

(* Without an accident a load that succeeds without any setting has a      *)
(* decoding beside it, and none yields a part of the settings.  Encodings  *)
(* beside it do no harm, at whichever of their writes and with whatever    *)
(* code: the load fails, or it decodes the body under the header it read.  *)
LoadedWithoutCause ==
    lpc = "idle" /\ ~accident =>
        /\ result = "nothing" => "decode" \in overlap
        /\ result # "part"
=============================================================================
