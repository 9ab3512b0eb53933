------------------------ MODULE ConfigurationProofs -------------------------
(* Theorems about the configuration: its file, which programs encode and   *)
(* decode while the server loads it, for any codes, any contents of the    *)
(* memory behind them and any number of runs; and the settings made of its *)
(* text, for any lines, any values and any number of calls of _envp_set.   *)
EXTENDS Confile, Settings, SequenceTheorems, TLAPS

Typed(f) == f \in Files /\ Keyed(f)
Contents == {"conf", "part", "msx", None}

Types ==
    /\ Typed(file) /\ Typed(mem) /\ Typed(first)
    /\ wpc \in {"idle", "encode", "e_header", "e_body", "decode", "d_write"}
    /\ wkey \in Keys \cup {NoKey}
    /\ lpc \in {"idle", "header", "body"}
    /\ result \in {"fail", "conf", "part", "nothing"}
    /\ runs \in 0..Runs
    /\ accident \in BOOLEAN /\ overlap \in SUBSET {"encode", "decode"}

Whole(f) == f.text = "conf" /\ f.kind \in {"plain", "coded"}

(* What a writer is about to put into the file, and what it finds there.   *)
Writing ==
    /\ wpc # "idle" => wkey \in Keys
    /\ wpc \in {"encode", "e_header", "e_body"} => mem.kind = "coded" /\ mem.key = wkey
    /\ wpc = "encode" => HasSettings(file)
    /\ wpc \in {"decode", "d_write"} => mem.kind \in {"plain", "junk"}
    /\ wpc = "decode" => file.key = wkey
    /\ \A f \in {file, mem} : f.kind = "coded" => f.text \in {"conf", "part"}

(* Unless something has gone wrong it is the configuration all along, and  *)
(* what an encoding has put there so far.                                  *)
Undamaged ==
    /\ wpc \in {"idle", "encode", "decode"} => Whole(file)
    /\ wpc \in {"e_header", "d_write"} => file = Empty
    /\ wpc = "e_body" => file.kind = "header" /\ file.text = "conf"
    /\ wpc # "idle" => Whole(mem)
    /\ first.text # "part" /\ result # "part"

(* A load with no decoding beside it reads a header, and comes to a body,  *)
(* of the one text, whichever encodings they are of.                       *)
Undisturbed ==
    /\ lpc # "idle" => wpc \in {"idle", "e_body"} /\ file.kind \in {"coded", "header"}
    /\ lpc = "body" => HasHeader(first) /\ first.text = "conf"
    /\ lpc = "idle" => result \in {"fail", "conf"}

IInv ==
    /\ Types /\ Writing
    /\ ~accident => Undamaged
    /\ ~accident /\ "decode" \notin overlap => Undisturbed

LEMMA KeysAreKeys ==
    /\ \A c \in Codes, b \in Behind : Key(c, b) \in Keys
    /\ NoKey \notin Keys
  <1>1. \A c \in Codes, b \in Behind : Key(c, b) \in Keys
    BY DEF Keys
  <1>2. ASSUME NEW c \in Codes, NEW b \in Behind PROVE Key(c, b) # NoKey
    BY ConfileAssumption DEF Key, NoKey, None
  <1>3. QED
    BY <1>1, <1>2 DEF Keys

(* The files the programs write, and their parts.                          *)
LEMMA FilesMade ==
    ASSUME NEW text \in Contents, NEW key \in Keys
    PROVE  /\ Typed(Empty) /\ Empty.kind = "empty"
           /\ Typed(Junk) /\ Junk.kind = "junk"
           /\ Empty.text # "part"
           /\ Typed(Plain(text)) /\ Plain(text).kind = "plain" /\ Plain(text).text = text
           /\ Typed(Coded(text, key)) /\ Coded(text, key).kind = "coded"
           /\ Coded(text, key).text = text /\ Coded(text, key).key = key
           /\ Typed(Header(text, key)) /\ Header(text, key).kind = "header"
           /\ Typed(Cut(text, key)) /\ Cut(text, key).kind = "cut"
  BY KeysAreKeys DEF Typed, Files, Keyed, HasHeader, Contents, None, Empty, Junk, Plain,
     Coded, Header, Cut

LEMMA TextsTyped == ASSUME NEW f, Typed(f) PROVE f.text \in Contents /\ TextOf(f) \in Contents
  BY DEF Typed, Files, TextOf, Contents

LEMMA IInvInit == Init => IInv
  <1> SUFFICES ASSUME Init PROVE IInv
    OBVIOUS
  <1> USE ConfileAssumption DEF Init
  <1>1. /\ Typed(Plain("conf")) /\ Typed(Empty) /\ Whole(Plain("conf"))
        /\ Plain("conf").kind = "plain" /\ Empty.kind = "empty" /\ Empty.text # "part"
    BY KeysAreKeys DEF Typed, Files, Keyed, HasHeader, None, Empty, Plain, Whole
  <1>2. Types
    <2>1. accident \in BOOLEAN /\ overlap \in SUBSET {"encode", "decode"}
      OBVIOUS
    <2>2. runs \in 0..Runs
      OBVIOUS
    <2>3. QED
      BY <1>1, <2>1, <2>2, Zenon DEF Types
  <1>3. QED
    BY <1>1, <1>2 DEF IInv, Writing, Undamaged, Undisturbed

LEMMA OverlapGrows ==
    ASSUME overlap \in SUBSET {"encode", "decode"}, Overlapped
    PROVE  /\ overlap' \in SUBSET {"encode", "decode"} /\ overlap \subseteq overlap'
           /\ lpc = "idle" => overlap' = overlap
           /\ lpc # "idle" => Program(wpc) \cup Program(wpc') \subseteq overlap'
  <1>1. Program(wpc) \subseteq {"encode", "decode"} /\ Program(wpc') \subseteq {"encode", "decode"}
    BY DEF Program
  <1>2. QED
    BY <1>1 DEF Overlapped

(* crenconf, crdeconf and their accidents.                                 *)
LEMMA WriterSteps ==
    ASSUME IInv,
           \/ \E c \in Codes, b \in Behind : EncodeStart(c, b) \/ DecodeStart(c, b)
           \/ EncodeTruncate \/ EncodeHeader \/ EncodeBody
           \/ DecodeTruncate \/ DecodeWrite \/ Stopped \/ ShortWrite
    PROVE  IInv'
  <1> USE ConfileAssumption
      DEF IInv, Types, Writing, Undamaged, Undisturbed, Whole, Starts, writer, loader
  <1>1. ASSUME NEW c \in Codes, NEW b \in Behind, EncodeStart(c, b) PROVE IInv'
    <2>1. Key(c, b) \in Keys /\ TextOf(file) \in Contents
      BY KeysAreKeys, TextsTyped
    <2>2. /\ HasSettings(file) /\ TextOf(file) \in {"conf", "part"}
          /\ Whole(file) => TextOf(file) = "conf"
          /\ file.kind = "plain"
      BY <1>1 DEF EncodeStart, Encodable, TextOf, HasSettings
    <2>3. /\ Typed(mem') /\ mem'.kind = "coded" /\ mem'.key = wkey'
          /\ mem'.text = TextOf(file) /\ wkey' \in Keys
      BY <1>1, <2>1, FilesMade DEF EncodeStart
    <2>4. runs' \in 0..Runs /\ wpc = "idle" /\ wpc' = "encode"
      BY <1>1 DEF EncodeStart
    <2>5. overlap' \in SUBSET {"encode", "decode"} /\ overlap \subseteq overlap'
      BY <1>1, OverlapGrows DEF EncodeStart
    <2>6. UNCHANGED <<file, first, lpc, result, accident>>
      BY <1>1 DEF EncodeStart
    <2>7. QED
      BY <2>2, <2>3, <2>4, <2>5, <2>6 DEF HasSettings
  <1>2. ASSUME NEW c \in Codes, NEW b \in Behind, DecodeStart(c, b) PROVE IInv'
    <2>1. Key(c, b) \in Keys /\ file.text \in Contents
      BY KeysAreKeys, TextsTyped
    <2>2. file.kind \in {"coded", "cut"} /\ file.key = Key(c, b)
      BY <1>2 DEF DecodeStart, Decodable, KeyMatches
    <2>3. /\ Typed(mem') /\ mem'.kind \in {"plain", "junk"}
          /\ file.kind = "coded" => mem'.kind = "plain" /\ mem'.text = file.text
      BY <1>2, <2>1, FilesMade DEF DecodeStart
    <2>4. runs' \in 0..Runs /\ wpc = "idle" /\ wpc' = "decode" /\ wkey' = Key(c, b)
      BY <1>2 DEF DecodeStart
    <2>5. overlap' \in SUBSET {"encode", "decode"} /\ overlap \subseteq overlap'
      BY <1>2, OverlapGrows DEF DecodeStart
    <2>6. UNCHANGED <<file, first, lpc, result, accident>>
      BY <1>2 DEF DecodeStart
    <2>7. "decode" \notin overlap' => lpc = "idle"
      BY <1>2, <2>4, OverlapGrows DEF DecodeStart, Program
    <2>8. QED
      BY <2>1, <2>2, <2>3, <2>4, <2>5, <2>6, <2>7
  <1>3. CASE EncodeTruncate
    <2>1. overlap' \in SUBSET {"encode", "decode"} /\ overlap \subseteq overlap'
      BY <1>3, OverlapGrows DEF EncodeTruncate
    <2>2. lpc # "idle" => accident \/ "decode" \in overlap
      BY <1>3 DEF EncodeTruncate
    <2>3. QED
      BY <1>3, <2>1, <2>2, FilesMade DEF EncodeTruncate, Contents
  <1>4. CASE EncodeHeader
    <2>1. overlap' \in SUBSET {"encode", "decode"} /\ overlap \subseteq overlap'
      BY <1>4, OverlapGrows DEF EncodeHeader
    <2>2. Typed(file') /\ file'.kind = "header" /\ file'.text = mem.text
      <3>1. mem.text \in Contents /\ mem.key \in Keys /\ file' = Header(mem.text, mem.key)
        BY <1>4, TextsTyped DEF EncodeHeader
      <3>2. Header(mem.text, mem.key).text = mem.text
        BY DEF Header
      <3>3. QED
        BY <3>1, <3>2, FilesMade
    <2>3. QED
      BY <1>4, <2>1, <2>2 DEF EncodeHeader
  <1>5. CASE EncodeBody
    <2>1. overlap' \in SUBSET {"encode", "decode"} /\ overlap \subseteq overlap'
      BY <1>5, OverlapGrows DEF EncodeBody
    <2>2. QED
      BY <1>5, <2>1 DEF EncodeBody
  <1>6. CASE DecodeTruncate
    <2>1. overlap' \in SUBSET {"encode", "decode"} /\ overlap \subseteq overlap'
      BY <1>6, OverlapGrows DEF DecodeTruncate
    <2>2. QED
      BY <1>6, <2>1, FilesMade DEF DecodeTruncate, Contents
  <1>7. CASE DecodeWrite
    <2>1. overlap' \in SUBSET {"encode", "decode"} /\ overlap \subseteq overlap'
      BY <1>7, OverlapGrows DEF DecodeWrite
    <2>2. QED
      BY <1>7, <2>1 DEF DecodeWrite
  <1>8. CASE Stopped
    BY <1>8 DEF Stopped
  <1>9. CASE ShortWrite
    <2>1. overlap' \in SUBSET {"encode", "decode"}
      BY <1>9, OverlapGrows DEF ShortWrite
    <2>2. QED
      BY <1>9, <2>1, FilesMade, TextsTyped DEF ShortWrite, Contents
  <1>10. QED
    BY <1>1, <1>2, <1>3, <1>4, <1>5, <1>6, <1>7, <1>8, <1>9

(* What a load yields: the text of a body that belongs to its header.      *)
LEMMA LoadResults ==
    ASSUME LoadBody
    PROVE  \/ result' \in {"fail", "nothing"}
           \/ result' = file.text /\ file.kind = "coded"
  BY DEF LoadBody, Belongs

LEMMA LoadOfOneText ==
    ASSUME LoadBody, HasHeader(first), first.text = "conf", file.text = "conf",
           file.kind \in {"coded", "header"}
    PROVE  result' \in {"fail", "conf"}
  <1>1. file # Plain("part")
    BY DEF Plain
  <1>2. CASE file.kind = "coded"
    BY <1>1, <1>2 DEF LoadBody, Belongs
  <1>3. CASE file.kind = "header"
    BY <1>1, <1>3 DEF LoadBody, Belongs
  <1>4. QED
    BY <1>2, <1>3

(* The load, and programs that refuse.                                     *)
LEMMA LoaderSteps ==
    ASSUME IInv,
           \/ \E c \in Codes, b \in Behind : Refused(c, b)
           \/ LoadStart \/ LoadHeader \/ LoadBody \/ UNCHANGED vars
    PROVE  IInv'
  <1> USE ConfileAssumption
      DEF IInv, Types, Writing, Undamaged, Undisturbed, Whole, Starts, writer, loader
  <1>1. ASSUME NEW c \in Codes, NEW b \in Behind, Refused(c, b) PROVE IInv'
    BY <1>1 DEF Refused
  <1>2. CASE LoadStart
    <2>1. runs' \in 0..Runs /\ lpc = "idle" /\ UNCHANGED <<file, mem, wkey, wpc, first, accident>>
      BY <1>2 DEF LoadStart
    <2>2. /\ overlap' \in SUBSET {"encode", "decode"}
          /\ wpc \in {"decode", "d_write"} => "decode" \in overlap'
      BY <1>2 DEF LoadStart, Program
    <2>3. CASE LoadsPlain(file)
      <3>1. result' = file.text /\ result' \in {"conf", "part"} /\ lpc' = "idle"
        BY <1>2, <2>3, Zenon DEF LoadStart, LoadsPlain, HasSettings
      <3>2. ~accident => result' = "conf"
        <4>1. file.kind = "plain"
          BY <2>3 DEF LoadsPlain, HasSettings
        <4>2. QED
          BY <3>1, <4>1 DEF Empty
      <3>3. QED
        BY <2>1, <2>2, <3>1, <3>2
    <2>4. CASE ~LoadsPlain(file)
      <3>1. \/ file.kind = "empty" /\ result' = "fail" /\ lpc' = "idle"
            \/ file.kind # "empty" /\ lpc' = "header" /\ result' = result
        BY <1>2, <2>4, <2>1, Zenon DEF LoadStart
      <3>2. Whole(file) => file.kind = "coded"
        BY <2>4 DEF LoadsPlain, HasSettings
      <3>3. Empty.kind = "empty"
        BY DEF Empty
      <3>4. wpc # "encode"
        BY <2>4 DEF LoadsPlain
      <3>5. QED
        BY <2>1, <2>2, <3>1, <3>2, <3>3, <3>4
    <2>5. QED
      BY <2>3, <2>4
  <1>3. CASE LoadHeader
    <2>1. ~accident => file.text # "part"
      BY DEF Empty, None
    <2>2. file.kind \in {"coded", "header"} => HasHeader(file)
      BY DEF HasHeader
    <2>3. QED
      BY <1>3, <2>1, <2>2 DEF LoadHeader
  <1>4. CASE LoadBody
    <2>1. \/ result' \in {"fail", "nothing"}
          \/ result' = file.text /\ file.kind = "coded"
      BY <1>4, LoadResults
    <2>2. /\ lpc = "body" /\ lpc' = "idle"
          /\ UNCHANGED <<file, mem, wkey, wpc, first, runs, accident, overlap>>
      BY <1>4 DEF LoadBody
    <2>3. file.kind = "coded" => file.text \in {"conf", "part"}
      OBVIOUS
    <2>4. result' \in {"fail", "conf", "part", "nothing"}
      BY <2>1, <2>3
    <2>5. Types' /\ Writing'
      BY <2>2, <2>4
    <2>6. ~accident => result' # "part"
      <3>1. ~accident => file.text # "part"
        BY DEF Empty, None
      <3>2. QED
        BY <2>1, <3>1
    <2>7. ~accident' => Undamaged'
      BY <2>2, <2>6
    <2>8. ~accident' /\ "decode" \notin overlap' => result' \in {"fail", "conf"}
      <3> SUFFICES ASSUME ~accident, "decode" \notin overlap
                   PROVE  result' \in {"fail", "conf"}
        BY <2>2
      <3>1. /\ HasHeader(first) /\ first.text = "conf" /\ file.text = "conf"
            /\ file.kind \in {"coded", "header"}
        BY <2>2
      <3>2. QED
        BY <1>4, <3>1, LoadOfOneText
    <2>9. QED
      BY <2>2, <2>5, <2>7, <2>8
  <1>5. CASE UNCHANGED vars
    BY <1>5 DEF vars
  <1>6. QED
    BY <1>1, <1>2, <1>3, <1>4, <1>5

LEMMA IInvAlways == Spec => []IInv
  <1>1. IInv /\ [Next]_vars => IInv'
    BY WriterSteps, LoaderSteps DEF Next
  <1>2. QED
    BY IInvInit, <1>1, PTL DEF Spec
-----------------------------------------------------------------------------
(* The type invariant.                                                     *)
THEOREM FileTyped == Spec => []TypeOK
  <1>1. IInv => TypeOK
    BY DEF IInv, Types, Typed, TypeOK
  <1>2. QED
    BY IInvAlways, <1>1, PTL

(* Without accidents the configuration survives every sequence of runs.    *)
THEOREM ConfigurationSurvives == Spec => []Survives
  <1>1. IInv => Survives
    BY DEF IInv, Undamaged, Whole, Survives
  <1>2. QED
    BY IInvAlways, <1>1, PTL

(* A load that ends without the whole configuration has a cause.           *)
THEOREM LossHasCause == Spec => []LoadedWithoutCause
  <1>1. IInv => LoadedWithoutCause
    BY DEF IInv, Undamaged, Undisturbed, LoadedWithoutCause
  <1>2. QED
    BY IInvAlways, <1>1, PTL

(* crdeconf truncates only a file whose key is its own.                    *)
THEOREM OtherKeysAreSafe == Spec => OtherKeyTouchesNothing
  <1>1. IInv => [wpc = "decode" /\ wpc' = "d_write" => file.key = wkey]_vars
    BY DEF IInv, Writing
  <1>2. QED
    BY IInvAlways, <1>1, PTL DEF OtherKeyTouchesNothing
-----------------------------------------------------------------------------
(* A line of the text that is for a field, and what the first m lines say. *)
IsFor(n, f)  == buff[n].kind \in {"set", "dollar"} /\ buff[n].key # "other"
                    /\ Field(buff[n].key) = f
Latest(n, f, m) == IsFor(n, f) /\ \A k \in 1..m : IsFor(k, f) => k <= n
Says(v, f, m) == \/ v = NoValue /\ \A n \in 1..m : ~IsFor(n, f)
                 \/ \E n \in 1..m : Latest(n, f, m) /\ v = buff[n].value

AllValues == Values \cup {NoValue, "here", "null"}
Entries   == [name : Names, value : AllValues]

SettingsTypes ==
    /\ spc \in {"read", "loaded", "adding", "modules", "socket", "serving", "dead",
               "astray"}
    /\ buff \in Seq(Lines) /\ line \in 0..Len(buff) /\ skew \in Nat
    /\ settings \in [Fields -> AllValues]
    /\ opt_cfg \in BOOLEAN /\ opt_srv \in BOOLEAN
    /\ envp \in Seq(Entries) /\ tail \in {"null", "wild"} /\ last \in [Names -> AllValues]

(* The lines that were read are those before the first bad one.            *)
Reading ==
    /\ \A n \in 1..line : buff[n].kind # "bad"
    /\ spc \notin {"read", "dead"} =>
          line = Len(buff) \/ buff[line + 1].kind = "bad"
    /\ skew > 0 => \E n \in 1..line : buff[n].kind = "dollar"

Replaced(f) == ~opt_cfg /\ f \in UsedByModules /\ spc \notin {"read", "loaded"}

Followed ==
    spc # "dead" =>
        \A f \in Fields : IF Replaced(f) THEN settings[f] = "here"
                                         ELSE Says(settings[f], f, line)

(* The first entry of a name has what was set last.                        *)
Shows(entries, n, v) ==
    \/ v = NoValue /\ \A j \in 1..Len(entries) : entries[j].name # n
    \/ \E k \in 1..Len(entries) :
          /\ entries[k].name = n /\ entries[k].value = v
          /\ \A j \in 1..Len(entries) : entries[j].name = n => k <= j

Listed ==
    /\ spc \in {"read", "loaded"} => envp = <<>>
    /\ spc = "adding" => Len(envp) < 5
                            /\ \A k \in 1..Len(envp) : envp[k].name = Added[k]
    /\ spc # "astray" => \A n \in Names : Shows(envp, n, last[n])
    /\ tail = "wild" \/ spc = "astray" => Len(envp) >= 2

SettingsInv == /\ SettingsTypes /\ Reading /\ Followed /\ Listed /\ DiesOfItsFile
               /\ spc = "socket" => opt_srv

LEMMA Fielded ==
    ASSUME NEW key \in Variables
    PROVE  Field(key) \in Fields
BY DEF Variables, Field, Fields

LEMMA SettingsInvFirst ==
    ASSUME SettingsInit
    PROVE  SettingsInv
<1> USE SettingsAssumption DEF SettingsInit
<1>1. SettingsTypes
  BY DEF SettingsTypes, AllValues
<1>2. Reading /\ Listed /\ DiesOfItsFile
  BY DEF Reading, Listed, Shows, DiesOfItsFile
<1>3. Followed
  BY DEF Followed, Replaced, Says
<1> QED BY <1>1, <1>2, <1>3 DEF SettingsInv

(* A line is read.                                                         *)
LEMMA ReadLineKeeps ==
    ASSUME SettingsInv, ReadLine
    PROVE  SettingsInv'
<1> USE DEF options, list
<1>1. /\ spc = "read" /\ spc' = spc /\ line' = line + 1 /\ Line.kind # "bad"
      /\ settings' = IF Line.kind = "skip" THEN settings ELSE Assign(Line)
      /\ skew' = IF Line.kind = "dollar" THEN skew + 1 ELSE skew
      /\ UNCHANGED <<buff, opt_cfg, opt_srv, envp, tail, last>>
      /\ line < Len(buff)
  BY DEF ReadLine
<1>2. /\ line \in Nat /\ buff \in Seq(Lines) /\ line + 1 \in 1..Len(buff)
      /\ Line = buff[line + 1] /\ Line \in Lines
      /\ \A n \in 1..(line + 1) : n \in 1..line \/ n = line + 1
  BY <1>1 DEF SettingsInv, SettingsTypes, Line
<1>3. /\ Line.kind \in {"skip", "set", "dollar", "bad"} /\ Line.value \in Values
      /\ Line.key \in Variables \/ Line.key = "other"
  BY <1>2 DEF Lines
<1>4. settings' \in [Fields -> AllValues]
  BY <1>1, <1>3, Fielded DEF SettingsInv, SettingsTypes, Assign, AllValues
<1>5. SettingsTypes'
  BY <1>1, <1>2, <1>4 DEF SettingsInv, SettingsTypes
<1>6. Reading'
  BY <1>1, <1>2 DEF SettingsInv, SettingsTypes, Reading
<1>7. Followed'
  <2> SUFFICES ASSUME NEW f \in Fields
               PROVE  Says(settings'[f], f, line + 1)
    BY <1>1 DEF Followed, Replaced, Says, Latest, IsFor
  <2>1. Says(settings[f], f, line)
    BY <1>1 DEF SettingsInv, Followed, Replaced
  <2>2. CASE IsFor(line + 1, f)
    <3>1. settings'[f] = buff[line + 1].value
      BY <1>1, <1>2, <1>3, <2>2, Fielded DEF IsFor, Assign, SettingsInv, SettingsTypes
    <3>2. Latest(line + 1, f, line + 1)
      BY <1>2, <2>2 DEF Latest
    <3> QED BY <1>2, <3>1, <3>2 DEF Says
  <2>3. CASE ~IsFor(line + 1, f)
    <3>1. settings'[f] = settings[f]
      BY <1>1, <1>2, <1>3, <2>3 DEF IsFor, Assign, SettingsInv, SettingsTypes
    <3>2. CASE settings[f] = NoValue /\ \A n \in 1..line : ~IsFor(n, f)
      BY <1>2, <2>3, <3>1, <3>2 DEF Says
    <3>3. CASE \E n \in 1..line : Latest(n, f, line) /\ settings[f] = buff[n].value
      <4>1. PICK n \in 1..line : Latest(n, f, line) /\ settings[f] = buff[n].value
        BY <3>3
      <4>2. Latest(n, f, line + 1) /\ n \in 1..(line + 1)
        BY <1>2, <2>3, <4>1 DEF Latest
      <4> QED BY <3>1, <4>1, <4>2 DEF Says
    <3> QED BY <2>1, <3>2, <3>3 DEF Says
  <2> QED BY <2>2, <2>3
<1>8. Listed' /\ DiesOfItsFile'
  BY <1>1 DEF SettingsInv, Listed, Shows, DiesOfItsFile
<1> QED BY <1>1, <1>5, <1>6, <1>7, <1>8 DEF SettingsInv

(* What was read is what stands before the first bad line.                 *)
LEMMA WhatWasRead ==
    ASSUME SettingsInv,
           line = Len(buff) \/ (line + 1 \in 1..Len(buff) /\ buff[line + 1].kind = "bad")
    PROVE  /\ Taken = 1..line
           /\ \A f : For(f) = {n \in 1..line : IsFor(n, f)}
           /\ line = Len(buff) => Bad = {}
<1>1. /\ line \in 0..Len(buff) /\ Len(buff) \in Nat
      /\ \A n \in 1..line : buff[n].kind # "bad"
  BY DEF SettingsInv, SettingsTypes, Reading
<1>2. \A b \in Bad : b \in 1..Len(buff) /\ b > line
  BY <1>1 DEF Bad
<1>3. line # Len(buff) => line + 1 \in Bad
  BY DEF Bad
<1>4. Taken = 1..line
  BY <1>1, <1>2, <1>3 DEF Taken
<1>5. \A f : For(f) = {n \in 1..line : IsFor(n, f)}
  BY <1>4 DEF For, IsFor
<1>6. line = Len(buff) => Bad = {}
  BY <1>1, <1>2
<1> QED BY <1>4, <1>5, <1>6

(* The text is at its end, or cannot be read further.                      *)
LEMMA ReadingEnds ==
    ASSUME SettingsInv, Stop \/ EndOfText
    PROVE  SettingsInv'
<1>1. /\ UNCHANGED <<buff, line, skew, settings, opt_cfg, opt_srv, envp, tail, last>>
      /\ spc = "read" /\ spc' \in {"loaded", "dead"}
      /\ line = Len(buff) \/ (line < Len(buff) /\ buff[line + 1].kind = "bad")
      /\ spc' = "dead" => line = Len(buff) /\ skew > 0
  BY DEF Stop, EndOfText, Line, options, list
<1>2. SettingsTypes' /\ Reading' /\ Followed' /\ Listed'
  BY <1>1 DEF SettingsInv, SettingsTypes, Reading, Followed, Replaced, Says, Latest,
              IsFor, Listed, Shows
<1>3. DiesOfItsFile'
  <2> SUFFICES ASSUME spc' = "dead"
               PROVE  Moved /\ Bad = {}
    BY <1>1 DEF DiesOfItsFile, Moved, Bad, Taken
  <2>1. Taken = 1..line /\ Bad = {}
    BY <1>1, WhatWasRead
  <2>2. \E n \in 1..line : buff[n].kind = "dollar"
    BY <1>1 DEF SettingsInv, Reading
  <2> QED BY <2>1, <2>2 DEF Moved
<1> QED BY <1>1, <1>2, <1>3 DEF SettingsInv

LEMMA LoadConfigKeeps ==
    ASSUME SettingsInv, load_config
    PROVE  SettingsInv'
<1>1. /\ UNCHANGED <<buff, line, skew, opt_cfg, opt_srv, envp, tail, last>>
      /\ spc = "loaded" /\ spc' = "adding"
      /\ settings' = IF opt_cfg THEN settings ELSE [f \in Fields |-> Here(f)]
  BY DEF load_config, options, list
<1>2. settings' \in [Fields -> AllValues]
  BY <1>1 DEF SettingsInv, SettingsTypes, Here, AllValues
<1>3. SettingsTypes' /\ Reading' /\ DiesOfItsFile'
  BY <1>1, <1>2 DEF SettingsInv, SettingsTypes, Reading, DiesOfItsFile
<1>4. Followed'
  <2>1. \A f \in Fields : Says(settings[f], f, line)
    BY <1>1 DEF SettingsInv, Followed, Replaced
  <2>2. CASE opt_cfg
    BY <1>1, <2>1, <2>2 DEF Followed, Replaced, Says, Latest, IsFor
  <2>3. CASE ~opt_cfg
    BY <1>1, <2>1, <2>3 DEF Followed, Replaced, Says, Latest, IsFor, Here,
                            UsedByModules
  <2> QED BY <2>2, <2>3
<1>5. Listed'
  BY <1>1 DEF SettingsInv, Listed, Shows
<1> QED BY <1>1, <1>3, <1>4, <1>5 DEF SettingsInv

(* An entry behind the others hides none of them.                          *)
LEMMA Appended ==
    ASSUME NEW es \in Seq(Entries), NEW n \in Names, NEW v \in AllValues
    PROVE  /\ Append(es, Entry(n, v)) \in Seq(Entries)
           /\ Len(Append(es, Entry(n, v))) = Len(es) + 1
           /\ Append(es, Entry(n, v))[Len(es) + 1].name = n
           /\ \A j \in 1..Len(es) : Append(es, Entry(n, v))[j] = es[j]
           /\ \A m, w : Shows(es, m, w) /\ (m # n \/ \E j \in 1..Len(es) : es[j].name = n)
                  => Shows(Append(es, Entry(n, v)), m, w)
           /\ (\A j \in 1..Len(es) : es[j].name # n)
                  => Shows(Append(es, Entry(n, v)), n, v)
<1>1. /\ Entry(n, v) \in Entries
      /\ Entry(n, v).name = n /\ Entry(n, v).value = v
  BY DEF Entry, Entries
<1>2. PICK t : t = Append(es, Entry(n, v))
  OBVIOUS
<1>3. /\ t \in Seq(Entries) /\ Len(t) = Len(es) + 1 /\ Len(es) \in Nat
      /\ t[Len(es) + 1] = Entry(n, v)
      /\ \A j \in 1..Len(es) : t[j] = es[j]
  BY <1>1, <1>2, AppendProperties
<1>4. ASSUME NEW m, NEW w, Shows(es, m, w), m # n \/ \E j \in 1..Len(es) : es[j].name = n
      PROVE  Shows(t, m, w)
  <2>1. CASE w = NoValue /\ \A j \in 1..Len(es) : es[j].name # m
    BY <1>1, <1>3, <1>4, <2>1 DEF Shows
  <2>2. CASE \E k \in 1..Len(es) :
                /\ es[k].name = m /\ es[k].value = w
                /\ \A j \in 1..Len(es) : es[j].name = m => k <= j
    BY <1>3, <2>2 DEF Shows
  <2> QED BY <1>4, <2>1, <2>2 DEF Shows
<1>5. (\A j \in 1..Len(es) : es[j].name # n) => Shows(t, n, v)
  BY <1>1, <1>3 DEF Shows
<1> QED BY <1>1, <1>2, <1>3, <1>4, <1>5

(* Five entries, or none further once the list is lost.                    *)
LEMMA AddSettingKeeps ==
    ASSUME SettingsInv, AddSetting
    PROVE  SettingsInv'
<1> DEFINE k == Len(envp) + 1
           n == Added[k]
           v == Added_value(n)
<1>1. /\ UNCHANGED <<buff, line, skew, settings, opt_cfg, opt_srv>>
      /\ spc = "adding" /\ last' = [last EXCEPT ![n] = v]
      /\ \/ tail = "wild" /\ spc' = "astray" /\ envp' = envp /\ tail' = tail
         \/ /\ spc' = IF k = Len(Added) THEN "modules" ELSE "adding"
            /\ envp' = Append(envp, Entry(n, v))
            /\ tail' \in IF envp = <<>> THEN {"null"} ELSE {"null", "wild"}
  BY DEF AddSetting, _envp_add, options
<1>2. /\ envp \in Seq(Entries) /\ Len(envp) \in 0..4 /\ k \in 1..5
      /\ \A j \in 1..Len(envp) : envp[j].name = Added[j]
      /\ \A m \in Names : Shows(envp, m, last[m])
  <2>1. spc = "adding" /\ envp \in Seq(Entries)
    BY <1>1 DEF SettingsInv, SettingsTypes
  <2>2. /\ Len(envp) < 5 /\ \A j \in 1..Len(envp) : envp[j].name = Added[j]
        /\ \A m \in Names : Shows(envp, m, last[m])
    BY <2>1 DEF SettingsInv, Listed
  <2>3. Len(envp) \in Nat
    BY <2>1, LenProperties
  <2>4. Len(envp) \in 0..4 /\ k \in 1..5
    <3>1. ASSUME NEW c \in Nat, c < 5 PROVE c \in 0..4 /\ c + 1 \in 1..5
      BY <3>1
    <3> QED BY <2>2, <2>3, <3>1
  <2> QED BY <2>1, <2>2, <2>4
<1>3. /\ Len(Added) = 5 /\ \A j \in 1..5 : Added[j] \in Names
      /\ \A i, j \in 1..5 : Added[i] = Added[j] => i = j
  <2>1. /\ Added[1] = "epath" /\ Added[2] = "modules" /\ Added[3] = "mydata"
        /\ Added[4] = "temp" /\ Added[5] = "logs" /\ Len(Added) = 5
    BY DEF Added
  <2> QED BY <2>1 DEF Names
<1>4. n \in Names /\ \A j \in 1..Len(envp) : envp[j].name # n
  BY <1>2, <1>3
<1>5. v \in AllValues
  <2>1. n # "epath" => n \in Fields
    BY <1>4 DEF Names, Fields
  <2> QED BY <2>1 DEF Added_value, AllValues, SettingsInv, SettingsTypes
<1>6. last' \in [Names -> AllValues] /\ \A m \in Names : last'[m] = IF m = n THEN v ELSE last[m]
  BY <1>1, <1>4, <1>5 DEF SettingsInv, SettingsTypes
<1> HIDE DEF k, n, v
<1>7. ASSUME spc' = "astray", tail = "wild", envp' = envp, tail' = tail
      PROVE  SettingsInv'
  BY <1>1, <1>6, <1>7 DEF SettingsInv, SettingsTypes, Reading, Followed, Replaced,
     Says, Latest, IsFor, DiesOfItsFile, Listed
<1>8. ASSUME spc' = IF k = Len(Added) THEN "modules" ELSE "adding",
             envp' = Append(envp, Entry(n, v)),
             tail' \in IF envp = <<>> THEN {"null"} ELSE {"null", "wild"}
      PROVE  SettingsInv'
  <2>1. /\ envp' \in Seq(Entries) /\ Len(envp') = k /\ envp'[k].name = n
        /\ \A j \in 1..Len(envp) : envp'[j] = envp[j]
        /\ \A m \in Names : Shows(envp', m, last'[m])
    BY <1>2, <1>4, <1>5, <1>6, <1>8, Appended DEF k
  <2>2. tail' \in {"null", "wild"} /\ (tail' = "wild" => Len(envp') >= 2)
    BY <1>2, <1>8, <2>1 DEF k
  <2>3. spc' = "adding" => /\ Len(envp') < 5
                           /\ \A j \in 1..Len(envp') : envp'[j].name = Added[j]
    BY <1>2, <1>3, <1>8, <2>1 DEF k, n
  <2>4. Listed'
    BY <1>8, <2>1, <2>2, <2>3 DEF Listed, Shows
  <2> QED BY <1>1, <1>6, <1>8, <2>1, <2>2, <2>4 DEF SettingsInv, SettingsTypes, Reading,
             Followed, Replaced, Says, Latest, IsFor, DiesOfItsFile
<1> QED BY <1>1, <1>7, <1>8 DEF k, n, v

(* The first use of the fields.                                            *)
LEMMA UseKeeps ==
    ASSUME SettingsInv, LoadModules \/ BeginSocket \/ FirstConnection
    PROVE  SettingsInv'
<1>1. /\ UNCHANGED <<buff, line, skew, settings, opt_cfg, opt_srv, envp, tail, last>>
      /\ spc \in {"modules", "socket", "serving"}
      /\ spc' \in {"dead", "socket", "serving"}
      /\ spc' = "socket" => opt_srv
      /\ spc' = "dead" => \/ Missing(UsedByModules)
                          \/ opt_srv /\ Missing(UsedBySocket \cup {"timeout"})
  BY DEF LoadModules, BeginSocket, FirstConnection, options, list, Missing, SettingsInv
<1>2. SettingsTypes' /\ Reading' /\ Followed' /\ Listed'
  BY <1>1 DEF SettingsInv, SettingsTypes, Reading, Followed, Replaced, Says, Latest,
              IsFor, Listed, Shows
<1>3. DiesOfItsFile'
  <2> SUFFICES ASSUME spc' = "dead"
               PROVE  \/ opt_cfg /\ \E f \in UsedByModules : For(f) = {}
                      \/ opt_srv /\ \E f \in UsedBySocket \cup {"timeout"} : For(f) = {}
    BY <1>1 DEF DiesOfItsFile, For, Taken, Bad
  <2>1. \A f \in Fields : settings[f] = NoValue => ~Replaced(f) /\ For(f) = {}
    <3> SUFFICES ASSUME NEW f \in Fields, settings[f] = NoValue
                 PROVE  ~Replaced(f) /\ For(f) = {}
      OBVIOUS
    <3>1. For(f) = {n \in 1..line : IsFor(n, f)}
      BY <1>1, WhatWasRead DEF SettingsInv, SettingsTypes, Reading
    <3>2. ~Replaced(f) /\ Says(NoValue, f, line)
      BY <1>1 DEF SettingsInv, Followed, NoValue
    <3>3. \A n \in 1..line : buff[n].value # NoValue
      <4>1. \A n \in 1..line : buff[n] \in Lines
        BY DEF SettingsInv, SettingsTypes
      <4> QED BY <4>1, SettingsAssumption DEF Lines
    <3> QED BY <3>1, <3>2, <3>3 DEF Says
  <2>2. UsedByModules \subseteq Fields /\ UsedBySocket \cup {"timeout"} \subseteq Fields
    BY DEF UsedByModules, UsedBySocket, Fields
  <2> QED BY <1>1, <2>1, <2>2 DEF Missing, Replaced
<1> QED BY <1>1, <1>2, <1>3 DEF SettingsInv

(* What a walk of the list comes to.                                       *)
LEMMA ShownIsFound ==
    ASSUME envp \in Seq(Entries), NEW n \in Names, NEW v, Shows(envp, n, v)
    PROVE  /\ _envp_get(n) = v
           /\ Matches(n) # {} => /\ First(n) \in 1..Len(envp) /\ envp[First(n)].name = n
                                 /\ \A j \in Matches(n) : First(n) <= j
<1>1. CASE v = NoValue /\ \A j \in 1..Len(envp) : envp[j].name # n
  BY <1>1 DEF _envp_get, Matches
<1>2. CASE \E k \in 1..Len(envp) :
              /\ envp[k].name = n /\ envp[k].value = v
              /\ \A j \in 1..Len(envp) : envp[j].name = n => k <= j
  <2>1. PICK k \in 1..Len(envp) :
              /\ envp[k].name = n /\ envp[k].value = v
              /\ \A j \in 1..Len(envp) : envp[j].name = n => k <= j
    BY <1>2
  <2>2. k \in Matches(n) /\ \A j \in Matches(n) : k <= j /\ j \in Nat /\ k \in Nat
    BY <2>1 DEF Matches
  <2>3. First(n) = k
    <3>1. \A i \in Matches(n) : (\A j \in Matches(n) : i <= j) <=> i = k
      BY <2>2
    <3> QED BY <2>2, <3>1 DEF First
  <2>4. Matches(n) # {} /\ envp[First(n)].value = v
    BY <2>1, <2>2, <2>3
  <2>5. _envp_get(n) = v
    BY <2>4 DEF _envp_get
  <2> QED BY <2>1, <2>2, <2>3, <2>5
<1> QED BY <1>1, <1>2 DEF Shows

(* The first entry of the name is changed.                                 *)
LEMMA ChangedShows ==
    ASSUME envp \in Seq(Entries), NEW name \in Names, NEW value \in AllValues,
           NEW w, Shows(envp, name, w)
    PROVE  /\ Changed(name, value) \in Seq(Entries)
           /\ Len(Changed(name, value)) = Len(envp)
           /\ \A m \in Names : \A u : m # name /\ Shows(envp, m, u)
                  => Shows(Changed(name, value), m, u)
           /\ \/ Shows(Changed(name, value), name, value)
                    /\ \E j \in 1..Len(envp) : Changed(name, value)[j].name = name
              \/ \A j \in 1..Len(envp) : Changed(name, value)[j].name # name
<1>1. CASE Matches(name) = {}
  <2>1. Changed(name, value) = envp /\ \A j \in 1..Len(envp) : envp[j].name # name
    BY <1>1 DEF Changed, Matches
  <2> QED BY <2>1
<1>2. CASE Matches(name) # {}
  <2>1. PICK p : p = First(name)
    OBVIOUS
  <2>2. /\ p \in 1..Len(envp) /\ envp[p].name = name
        /\ \A j \in 1..Len(envp) : envp[j].name = name => p <= j
    BY <1>2, <2>1, ShownIsFound DEF Matches
  <2>3. PICK s : s = [envp EXCEPT ![p].value = value]
    OBVIOUS
  <2>4. Changed(name, value) = s
    BY <1>2, <2>1, <2>3 DEF Changed
  <2>5. /\ s \in Seq(Entries) /\ Len(s) = Len(envp)
        /\ \A k \in 1..Len(envp) : /\ s[k].name = envp[k].name
                                   /\ s[k].value = IF k = p THEN value ELSE envp[k].value
    <3>1. \A k \in 1..Len(envp) : envp[k] \in Entries
      OBVIOUS
    <3>2. \A k \in 1..Len(envp) : s[k] = IF k = p THEN [envp[p] EXCEPT !.value = value]
                                                  ELSE envp[k]
      BY <2>2, <2>3
    <3>3. [envp[p] EXCEPT !.value = value] \in Entries
      BY <2>2, <3>1 DEF Entries
    <3>4. s \in Seq(Entries) /\ Len(s) = Len(envp)
      BY <2>2, <2>3, <3>3
    <3> QED BY <3>1, <3>2, <3>4 DEF Entries
  <2>6. Shows(s, name, value)
    BY <2>2, <2>5 DEF Shows
  <2>7. ASSUME NEW m \in Names, NEW u, m # name, Shows(envp, m, u)
        PROVE  Shows(s, m, u)
    <3>1. \A k \in 1..Len(envp) : envp[k].name = m => k # p
      BY <2>2, <2>7
    <3> QED BY <2>5, <2>7, <3>1 DEF Shows
  <2> QED BY <2>2, <2>4, <2>5, <2>6, <2>7
<1> QED BY <1>1, <1>2

LEMMA SetKeeps ==
    ASSUME SettingsInv, NEW name \in Names, NEW value \in Values, Set(name, value)
    PROVE  SettingsInv'
<1>1. PICK es : es = Changed(name, value)
  OBVIOUS
<1>2. /\ UNCHANGED <<buff, line, skew, settings, opt_cfg, opt_srv>>
      /\ spc = "serving" /\ last' = [last EXCEPT ![name] = value]
      /\ \/ /\ tail = "wild" /\ spc' = "astray" /\ envp' = es /\ tail' = tail
         \/ /\ spc' = spc /\ envp' = Append(es, Entry(name, value))
            /\ tail' \in IF es = <<>> THEN {"null"} ELSE {"null", "wild"}
  BY <1>1 DEF Set, _envp_set, _envp_add, options
<1>3. /\ envp \in Seq(Entries) /\ last \in [Names -> AllValues] /\ value \in AllValues
      /\ \A m \in Names : Shows(envp, m, last[m])
  BY <1>2 DEF SettingsInv, SettingsTypes, Listed, AllValues
<1>4. /\ es \in Seq(Entries) /\ Len(es) = Len(envp)
      /\ \A m \in Names : m # name => Shows(es, m, last[m])
      /\ \/ Shows(es, name, value) /\ \E j \in 1..Len(es) : es[j].name = name
         \/ \A j \in 1..Len(es) : es[j].name # name
  <2>1. Shows(envp, name, last[name])
    BY <1>3
  <2> QED BY <1>1, <1>3, <2>1, ChangedShows
<1>5. last' \in [Names -> AllValues]
      /\ \A m \in Names : last'[m] = IF m = name THEN value ELSE last[m]
  BY <1>2, <1>3
<1>6. ASSUME tail = "wild", spc' = "astray", envp' = es, tail' = tail
      PROVE  SettingsInv'
  BY <1>2, <1>4, <1>5, <1>6 DEF SettingsInv, SettingsTypes, Reading, Followed, Replaced,
     Says, Latest, IsFor, DiesOfItsFile, Listed
<1>7. ASSUME spc' = spc, envp' = Append(es, Entry(name, value)),
             tail' \in IF es = <<>> THEN {"null"} ELSE {"null", "wild"}
      PROVE  SettingsInv'
  <2>1. /\ envp' \in Seq(Entries) /\ Len(envp') = Len(es) + 1
        /\ \A m \in Names : Shows(envp', m, last'[m])
    BY <1>3, <1>4, <1>5, <1>7, Appended
  <2>2. tail' \in {"null", "wild"} /\ (tail' = "wild" => Len(envp') >= 2)
    BY <1>4, <1>7, <2>1
  <2>3. Listed'
    BY <1>2, <1>7, <2>1, <2>2 DEF Listed, Shows
  <2> QED BY <1>2, <1>5, <1>7, <2>1, <2>2, <2>3 DEF SettingsInv, SettingsTypes, Reading,
             Followed, Replaced, Says, Latest, IsFor, DiesOfItsFile
<1> QED BY <1>2, <1>6, <1>7

LEMMA SettingsInvHolds == SettingsSpec => []SettingsInv
<1>1. ASSUME SettingsInv, UNCHANGED state
      PROVE  SettingsInv'
  <2>1. UNCHANGED <<spc, buff, line, skew, settings, opt_cfg, opt_srv, envp, tail, last>>
    BY <1>1 DEF state, options, list
  <2>2. SettingsTypes' /\ Reading' /\ Followed' /\ Listed'
    BY <1>1, <2>1 DEF SettingsInv, SettingsTypes, Reading, Followed, Replaced, Says,
                      Latest, IsFor, Listed, Shows
  <2>3. DiesOfItsFile'
    BY <1>1, <2>1 DEF SettingsInv, DiesOfItsFile, Moved, Bad, For, Taken
  <2> QED BY <1>1, <2>1, <2>2, <2>3 DEF SettingsInv
<1>2. SettingsInv /\ [SettingsNext]_state => SettingsInv'
  BY <1>1, ReadLineKeeps, ReadingEnds, LoadConfigKeeps, AddSettingKeeps, UseKeeps, SetKeeps
     DEF SettingsNext
<1> QED BY <1>2, SettingsInvFirst, PTL DEF SettingsSpec

(* Whatever the file and the options: the server that serves has what the  *)
(* last line for each field before the first bad one says, and one that    *)
(* dies of its file lacks a field it uses or has read a line with a $.     *)
THEOREM SettingsAreTheFile == SettingsSpec => []FileDecides
<1>1. SettingsInv => FileDecides
  <2> SUFFICES ASSUME SettingsInv, spc = "serving", NEW f \in Fields
               PROVE  settings[f] =
                IF ~opt_cfg /\ f \in UsedByModules THEN "here"
                ELSE IF For(f) = {} THEN NoValue
                ELSE buff[CHOOSE n \in For(f) : \A m \in For(f) : m <= n].value
    BY DEF FileDecides, RunsWithTheFile, SettingsInv
  <2>1. For(f) = {n \in 1..line : IsFor(n, f)}
    BY WhatWasRead DEF SettingsInv, SettingsTypes, Reading
  <2>2. CASE Replaced(f)
    BY <2>2 DEF SettingsInv, Followed, Replaced
  <2>3. CASE ~Replaced(f)
    <3>1. Says(settings[f], f, line)
      BY <2>3 DEF SettingsInv, Followed
    <3>2. CASE settings[f] = NoValue /\ \A n \in 1..line : ~IsFor(n, f)
      BY <2>1, <2>3, <3>2 DEF Replaced
    <3>3. CASE \E n \in 1..line : Latest(n, f, line) /\ settings[f] = buff[n].value
      <4>1. PICK n \in 1..line : Latest(n, f, line) /\ settings[f] = buff[n].value
        BY <3>3
      <4>2. n \in For(f) /\ \A m \in For(f) : m <= n /\ m \in Nat
        BY <2>1, <4>1 DEF Latest, SettingsInv, SettingsTypes
      <4>3. \A k \in For(f) : (\A m \in For(f) : m <= k) <=> k = n
        BY <4>2
      <4>4. n = CHOOSE k \in For(f) : \A m \in For(f) : m <= k
        BY <4>2, <4>3
      <4> QED BY <2>3, <4>1, <4>2, <4>4 DEF Replaced
    <3> QED BY <3>1, <3>2, <3>3 DEF Says
  <2> QED BY <2>2, <2>3
<1> QED BY <1>1, SettingsInvHolds, PTL

(* However often names are set, and whatever the memory of the entries     *)
(* held: until the process is lost, the first entry of a name, which is    *)
(* the one that is found, has the latest value.                            *)
THEOREM LatestIsFound == SettingsSpec => []SetIsSeen
<1>1. SettingsInv => SetIsSeen
  BY ShownIsFound DEF SettingsInv, SettingsTypes, Listed, SetIsSeen
<1> QED BY <1>1, SettingsInvHolds, PTL

(* A list of two entries is safe to have and to make.                      *)
THEOREM LostFromTheThirdOn == SettingsSpec => []TwoEntriesAreSafe
<1>1. SettingsInv => TwoEntriesAreSafe
  BY DEF SettingsInv, Listed, TwoEntriesAreSafe
<1> QED BY <1>1, SettingsInvHolds, PTL
=============================================================================
