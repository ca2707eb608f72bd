------------------------------ MODULE BaseConfig ------------------------------
(***************************************************************************)
(* BaseConfig of pub/baseconfig: how a file of [section] and key = value    *)
(* lines becomes the parameters the plugins ask for.  A line is a sequence  *)
(* of tokens: a blank, a bracket, the sign "=" or a word.                   *)
(***************************************************************************)
EXTENDS Naturals, Sequences, SequencesExt

Brackets == {"[", "]"}

EraseSpaceToken(line) == SelectSeq(line, LAMBDA x : x # " ")

IsSect(line) == Brackets \subseteq ToSet(line)

FetchSecName(line) == SelectSeq(line, LAMBDA x : x \notin Brackets)

Signs(line) == {i \in 1 .. Len(line) : line[i] = "="}

IsKeyValue(line) == \E i \in Signs(line) : Signs(line) = {i}

FectchKeyValue(line) ==
  LET pos == CHOOSE i \in Signs(line) : TRUE IN
  [key |-> SubSeq(line, 1, pos - 1), val |-> SubSeq(line, pos + 1, Len(line))]

(* A configuration is a set of parameters, one for a section and a key: of  *)
(* two lines the first counts.                                             *)
AddConfig(config, sect, kv) ==
  IF \E p \in config : p.sect = sect /\ p.key = kv.key THEN config
  ELSE config \cup {[sect |-> sect, key |-> kv.key, val |-> kv.val]}

(* A line that names no section and assigns nothing is passed over; what    *)
(* comes before the first section belongs to the section without a name.    *)
ParseLine(state, raw) ==
  LET line == EraseSpaceToken(raw) IN
  IF IsSect(line) THEN [state EXCEPT !.sect = FetchSecName(line)]
  ELSE IF IsKeyValue(line)
  THEN [state EXCEPT !.config = AddConfig(@, state.sect, FectchKeyValue(line))]
  ELSE state

ParseFile(lines) == FoldLeft(ParseLine, [sect |-> <<>>, config |-> {}], lines).config

(* LoadFile: a file that cannot be opened leaves the configuration empty.   *)
LoadFile(opens, lines) == IF opens THEN ParseFile(lines) ELSE {}

(* ConfigValue::GetValue: "0" for a key the section has not.                *)
GetValue(config, sect, key) ==
  IF \E p \in config : p.sect = sect /\ p.key = key
  THEN (CHOOSE p \in config : p.sect = sect /\ p.key = key).val
  ELSE <<"0">>

HasSection(config, sect) == \E p \in config : p.sect = sect

(* GetParam starts from "a", GetParamString and GetParamInt from "0".       *)
GetParam(config, sect, key) ==
  IF HasSection(config, sect) THEN GetValue(config, sect, key) ELSE <<"a">>

GetParamString(config, sect, key) ==
  IF HasSection(config, sect) THEN GetValue(config, sect, key) ELSE <<"0">>

(* Reading a number from a text: 0 from one that does not begin with a      *)
(* digit.                                                                  *)
Digits == [d \in {"0", "1", "2", "3"} |->
             CASE d = "0" -> 0 [] d = "1" -> 1 [] d = "2" -> 2 [] d = "3" -> 3]

ReadInt(text) ==
  IF text # <<>> /\ Head(text) \in DOMAIN Digits THEN Digits[Head(text)] ELSE 0

GetParamInt(config, sect, key) == ReadInt(GetParamString(config, sect, key))
=============================================================================
