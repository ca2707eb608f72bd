-------------------------------- MODULE Tools --------------------------------
(***************************************************************************)
(* The string tools of pub/tools, as operators on texts: a text is a        *)
(* sequence of characters.  Positions count from 1, 0 is npos.              *)
(***************************************************************************)
EXTENDS Integers, FiniteSets, Sequences, SequencesExt

CONSTANTS
  ToolCodes,    \* codes, sequences of characters without separators
  ToolNumbers   \* values for the heap

VARIABLES
  toolCall,     \* the call: its method and arguments
  toolAnswer    \* what it returned

toolVars == <<toolCall, toolAnswer>>

Separator == ","

-----------------------------------------------------------------------------
(* Texts.                                                                  *)
OccursAt(part, text, i) == SubSeq(text, i, i + Len(part) - 1) = part

(* std::string::find.                                                      *)
Find(text, part, start) ==
  LET found == {i \in start .. Len(text) - Len(part) + 1 : OccursAt(part, text, i)} IN
  IF found = {} THEN 0 ELSE CHOOSE i \in found : \A j \in found : i <= j

(* SeparatorStr: the parts between separators; `repeat' keeps equal ones.   *)
SeparatorStr(text, repeat) ==
  LET closed == <<Separator>> \o text
                \o (IF Last(text) = Separator THEN <<>> ELSE <<Separator>>)
      ends   == SetToSortSeq({i \in DOMAIN closed : closed[i] = Separator}, <)
      parts  == [k \in 1 .. Len(ends) - 1 |-> SubSeq(closed, ends[k] + 1, ends[k + 1] - 1)]
      Again(k) == \E j \in 1 .. k - 1 : parts[j] = parts[k]
  IN  IF text = <<>> THEN <<>>
      ELSE IF repeat THEN parts
      ELSE LET kept == SetToSortSeq({k \in DOMAIN parts : ~Again(k)}, <) IN
           [i \in DOMAIN kept |-> parts[kept[i]]]

(* Variant: separators are not counted when parts are looked for.           *)
Anywhere(part, text) == ToSet(part) \subseteq ToSet(text)

IsPartOf(part, text) == Find(text, part, 1) # 0

(* The parts that keep out of a text, each with a comma behind it.          *)
PartsNotIn(parts, text) ==
  FoldLeft(LAMBDA ret, part :
             IF IsPartOf(part, text) THEN ret ELSE ret \o part \o <<Separator>>,
           <<>>, parts)

MergeSet(one, two) ==
  IF one = <<>> THEN two
  ELSE IF two = <<>> THEN one
  ELSE two \o (IF Last(two) = Separator THEN <<>> ELSE <<Separator>>)
           \o PartsNotIn(SeparatorStr(one, TRUE), two)

IfSetOneIsInSetTwo(one, two) ==
  \/ one = <<>>
  \/ two # <<>> /\ \A part \in ToSet(SeparatorStr(one, TRUE)) : IsPartOf(part, two)

DeleteSet(one, two) ==
  IF one = <<>> \/ two = <<>> THEN two ELSE PartsNotIn(SeparatorStr(two, TRUE), one)

(* ListGroup: texts of group_size elements each, the last one of the rest.  *)
ListGroup(list, size) ==
  [g \in 1 .. (Len(list) + size - 1) \div size |->
     FoldLeft(LAMBDA value, part : value \o part \o <<Separator>>, <<>>,
              SubSeq(list, (g - 1) * size + 1,
                     IF g * size < Len(list) THEN g * size ELSE Len(list)))]

(* FindNth: cur_len is counted anew from behind each occurrence, so len     *)
(* bounds the distance between two of them.                                *)
FindNth(text, start, len, ch, num) ==
  LET at[k \in Nat] ==
        LET from == IF k = 1 THEN start ELSE at[k - 1] + 1
            end  == IF k > 1 /\ at[k - 1] = 0 THEN 0 ELSE Find(text, <<ch>>, from)
        IN  IF end = 0 \/ end + 1 - from > len THEN 0
            ELSE IF k > 1 /\ at[k - 1] + 1 - (IF k = 2 THEN start ELSE at[k - 2] + 1) = len
            THEN 0 ELSE end
  IN  IF num = 0 THEN 0 ELSE at[num]

(* Split by a pattern of one character: a part ends at each occurrence, the *)
(* last at the pattern that is added behind.                               *)
Split(text, ch) ==
  LET ends == SetToSortSeq({i \in DOMAIN text : text[i] = ch} \cup {0, Len(text) + 1}, <) IN
  [k \in 1 .. Len(ends) - 1 |-> SubSeq(text, ends[k] + 1, ends[k + 1] - 1)]

(* replace_all_distinct goes on behind each replacement.                    *)
replace_all_distinct(text, old, new) ==
  LET rest[s \in Seq(STRING)] ==
        LET i == Find(s, old, 1) IN
        IF i = 0 THEN s
        ELSE SubSeq(s, 1, i - 1) \o new \o rest[SubSeq(s, i + Len(old), Len(s))]
  IN  rest[text]

(* replace_all starts again from the front; of a new text that has the old  *)
(* one in it, which nobody asks for, it would never end.                    *)
replace_all(text, old, new) ==
  LET again[s \in Seq(STRING)] ==
        LET i == Find(s, old, 1) IN
        IF i = 0 THEN s
        ELSE again[SubSeq(s, 1, i - 1) \o new \o SubSeq(s, i + Len(old), Len(s))]
  IN  again[text]

ReplaceBlank(text) ==
  FoldLeft(LAMBDA s, blank : replace_all_distinct(s, <<blank>>, <<>>), text,
           <<" ", "\t", "\n">>)

(* HandleHeap with F = less: a bag of at most `most' values, kept sorted,   *)
(* with the greatest at the top; a smaller value replaces it.               *)
HandleHeap(heap, value, most) ==
  IF Len(heap) < most THEN SortSeq(Append(heap, value), <)
  ELSE IF heap # <<>> /\ value < Last(heap)
  THEN SortSeq(Append(Front(heap), value), <)
  ELSE heap

MapAdd(map, key, value) ==
  IF key \in DOMAIN map THEN [map EXCEPT ![key] = @ + value]
  ELSE [k \in DOMAIN map \cup {key} |-> IF k = key THEN value ELSE map[k]]

-----------------------------------------------------------------------------
(* The form of a set: codes in some order, each with a comma behind it.     *)
TextOf(codes) == FoldLeft(LAMBDA s, c : s \o c \o <<Separator>>, <<>>, codes)

Orders == SetToAllKPermutations(ToolCodes)

IdleCall == [method |-> "none"]

ToolsInit == toolCall = IdleCall /\ toolAnswer = <<>>

Ask(method, args, answer) ==
  /\ toolCall = IdleCall
  /\ toolCall' = [method |-> method, args |-> args]
  /\ toolAnswer' = answer

AskSets(one, two) ==
  LET a == TextOf(one)
      b == TextOf(two)
  IN  Ask("sets", <<one, two>>,
          [union |-> MergeSet(a, b), minus |-> DeleteSet(a, b),
           within |-> IfSetOneIsInSetTwo(a, b)])

AskGroups(list, size) == Ask("ListGroup", <<list, size>>, ListGroup(list, size))

AskNth(list, num) ==
  LET text == TextOf(list) IN
  Ask("FindNth", <<list, num>>, FindNth(text, 1, Len(text), Separator, num))

AskText(list, blank) ==
  LET text == FoldLeft(LAMBDA s, c : s \o c \o <<blank>>, <<>>, list) IN
  Ask("text", <<text, blank>>,
      [split |-> Split(text, blank), blanks |-> ReplaceBlank(text),
       replaced |-> replace_all(text, <<blank>>, <<Separator>>)])

AskHeap(values, most) ==
  Ask("heap", <<values, most>>,
      FoldLeft(LAMBDA heap, v : HandleHeap(heap, v, most), <<>>, values))

AskCounts(values) ==
  Ask("MapAdd", values, FoldLeft(LAMBDA map, v : MapAdd(map, v, 1), <<>>, values))

ToolReturns ==
  /\ toolCall # IdleCall
  /\ toolCall' = IdleCall /\ toolAnswer' = <<>>

ToolsNext ==
  \/ \E one \in Orders, two \in Orders : AskSets(one, two)
  \/ \E list \in Orders, n \in 1 .. 3 : AskGroups(list, n) \/ AskNth(list, n)
  \/ \E list \in Orders, blank \in {" ", "\t"} : AskText(list, blank)
  \/ \E values \in [1 .. 3 -> ToolNumbers] :
       AskCounts(values) \/ \E most \in 0 .. 2 : AskHeap(values, most)
  \/ ToolReturns

ToolsSpec == ToolsInit /\ [][ToolsNext]_toolVars

-----------------------------------------------------------------------------
(* The tools against what their names and comments say.  Sets of codes of   *)
(* one length, in any order, are merged, compared and subtracted although   *)
(* the code looks for each element as a part of the other text; groups keep *)
(* every element; the heap keeps the smallest values.                      *)
ToolsAgree ==
  LET arg == toolCall.args IN
  CASE toolCall.method = "sets" ->
         LET one == ToSet(arg[1])
             two == ToSet(arg[2])
             Elements(text) == ToSet(SeparatorStr(text, TRUE))
         IN  /\ Elements(toolAnswer.union) = one \cup two
             /\ Len(SeparatorStr(toolAnswer.union, TRUE)) = Cardinality(one \cup two)
             /\ Elements(toolAnswer.minus) = two \ one
             /\ toolAnswer.within <=> one \subseteq two
    [] toolCall.method = "ListGroup" ->
         /\ FlattenSeq(toolAnswer) = TextOf(arg[1])
         /\ \A i \in DOMAIN toolAnswer :
              LET n == Len(SeparatorStr(toolAnswer[i], TRUE)) IN
              1 <= n /\ n <= arg[2] /\ (i < Len(toolAnswer) => n = arg[2])
    [] toolCall.method = "FindNth" ->
         toolAnswer = IF arg[2] > Len(arg[1]) THEN 0
                      ELSE Len(TextOf(SubSeq(arg[1], 1, arg[2])))
    [] toolCall.method = "text" ->
         /\ toolAnswer.blanks = SelectSeq(arg[1], LAMBDA ch : ch # arg[2])
         /\ FlattenSeq(toolAnswer.split) = toolAnswer.blanks
         /\ Split(toolAnswer.replaced, Separator) = toolAnswer.split
    [] toolCall.method = "heap" ->
         toolAnswer = SubSeq(SortSeq(arg[1], <), 1, arg[2])
    [] toolCall.method = "MapAdd" ->
         \A v \in ToSet(arg) : toolAnswer[v] = Cardinality({i \in DOMAIN arg : arg[i] = v})
    [] OTHER -> TRUE
=============================================================================
