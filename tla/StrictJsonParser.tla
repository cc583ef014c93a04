-------------------------- MODULE StrictJsonParser --------------------------
(***************************************************************************)
(* The strict JSON parser (packages/core/src/serialization.ts): what every *)
(* digest of the system is computed from was read by it.  A text is a      *)
(* sequence of tokens, so white space and escapes are left out, and what   *)
(* the number of a token is rounded to is any number (CanonicalJson).      *)
(* readValue, readObject and readArray call each other; the calls that are *)
(* open are the stack of containers.                                       *)
(***************************************************************************)
EXTENDS Naturals, Sequences, SequencesExt

CONSTANTS
  CanScalars,       \* tokens of numbers, literals and strings that are values
  CanKeyOrder       \* string tokens used as keys, in code unit order

CanKeys == Range(CanKeyOrder)
CanMarks == {"[", "]", "{", "}", ",", ":"}
CanTokens == CanMarks \cup CanScalars \cup CanKeys

ASSUME CanTokenAssumption == CanMarks \cap (CanScalars \cup CanKeys) = {}

VARIABLES
  canText,          \* the source of the parser
  canOffset,        \* tokens read
  canStack,         \* open containers, innermost last
  canRoot,          \* the value read, or CanNothing
  canState          \* "reading", "accepted" or "refused"

canParserVars == <<canText, canOffset, canStack, canRoot, canState>>

CanNothing == [is |-> "nothing"]
CanScalar(token) == [is |-> "scalar", token |-> token]
CanArray(items) == [is |-> "array", items |-> items]
CanObject(entries) == [is |-> "object", entries |-> entries]

CanEntry(key, v) == [key |-> key, value |-> v]

\* A frame is an open container: what it expects next, its items or entries so
\* far, and the key that waits for its value.
CanFrame(is, wants, of, key) == [is |-> is, wants |-> wants, of |-> of, key |-> key]

CanTop == Last(canStack)
CanToken == canText[canOffset + 1]

\* A key no earlier entry has.
CanFresh(entries, key) == \A i \in DOMAIN entries : entries[i].key # key

\* A value may start here: at the root, as an item, or after a colon.
CanExpectsValue ==
  IF canStack = <<>> THEN canRoot = CanNothing
  ELSE CanTop.wants \in {"first item", "item", "value"}

\* What the next token may be: each method tests the character before it goes on.
CanOpens == CanExpectsValue /\ CanToken \in {"[", "{"}
CanIsScalar == CanExpectsValue /\ CanToken \in CanScalars \cup CanKeys
CanIsKey ==
  /\ canStack # <<>> /\ CanTop.wants \in {"first key", "key"}
  /\ CanToken \in CanKeys /\ CanFresh(CanTop.of, CanToken)
CanIsColon == canStack # <<>> /\ CanTop.wants = "colon" /\ CanToken = ":"
CanIsComma == canStack # <<>> /\ CanTop.wants = "separator" /\ CanToken = ","
CanCloses ==
  /\ canStack # <<>>
  /\ \/ CanTop.is = "array" /\ CanTop.wants \in {"first item", "separator"} /\ CanToken = "]"
     \/ CanTop.is = "object" /\ CanTop.wants \in {"first key", "separator"} /\ CanToken = "}"

\* ------------------------------------------------------------------ the parser's steps

CanReading == canState = "reading" /\ canOffset < Len(canText)

CanGo(stack, root) ==
  /\ canStack' = stack /\ canRoot' = root /\ canOffset' = canOffset + 1
  /\ UNCHANGED <<canText, canState>>

CanSetTop(stack, frame) == CanGo(Append(Front(stack), frame), canRoot)

\* readValue returns to the container that asked for it, or to parse.
CanReturn(stack, v) ==
  IF stack = <<>> THEN CanGo(stack, v)
  ELSE LET top == Last(stack)
           read == IF top.is = "array" THEN v ELSE CanEntry(top.key, v)
       IN  CanSetTop(stack, CanFrame(top.is, "separator", Append(top.of, read), top.key))

\* readValue: a container opens or a scalar is read.
CanOpen ==
  /\ CanReading /\ CanOpens
  /\ CanGo(Append(canStack, IF CanToken = "[" THEN CanFrame("array", "first item", <<>>, "none")
                            ELSE CanFrame("object", "first key", <<>>, "none")), canRoot)

CanReadScalar == CanReading /\ CanIsScalar /\ CanReturn(canStack, CanScalar(CanToken))

\* readObject: a key no earlier entry has, and its colon.
CanReadKey ==
  /\ CanReading /\ CanIsKey
  /\ CanSetTop(canStack, CanFrame(CanTop.is, "colon", CanTop.of, CanToken))

CanReadColon ==
  /\ CanReading /\ CanIsColon
  /\ CanSetTop(canStack, CanFrame(CanTop.is, "value", CanTop.of, CanTop.key))

\* readObject, readArray: a separator is followed by another entry or item.
CanReadComma ==
  /\ CanReading /\ CanIsComma
  /\ CanSetTop(canStack, CanFrame(CanTop.is, IF CanTop.is = "array" THEN "item" ELSE "key",
                                  CanTop.of, CanTop.key))

\* A container closes when it is empty or after an entry or item, never after a comma.
CanClose ==
  /\ CanReading /\ CanCloses
  /\ CanReturn(Front(canStack),
               IF CanTop.is = "array" THEN CanArray(CanTop.of) ELSE CanObject(CanTop.of))

CanFail ==
  /\ CanReading
  /\ ~(CanOpens \/ CanIsScalar \/ CanIsKey \/ CanIsColon \/ CanIsComma \/ CanCloses)
  /\ canState' = "refused" /\ UNCHANGED <<canText, canOffset, canStack, canRoot>>

\* parse: the value is complete and nothing trails it.
CanEnd ==
  /\ canState = "reading" /\ canOffset = Len(canText)
  /\ canState' = IF canStack = <<>> /\ canRoot # CanNothing THEN "accepted" ELSE "refused"
  /\ UNCHANGED <<canText, canOffset, canStack, canRoot>>

CanStart == canOffset = 0 /\ canStack = <<>> /\ canRoot = CanNothing /\ canState = "reading"

CanParserInit == canText \in Seq(CanTokens) /\ CanStart

CanParserNext ==
  \/ CanOpen \/ CanReadScalar \/ CanReadKey \/ CanReadColon \/ CanReadComma \/ CanClose
  \/ CanFail \/ CanEnd

CanParserSpec == CanParserInit /\ [][CanParserNext]_canParserVars

\* ------------------------------------------------------------------ the language

(***************************************************************************)
(* What the texts mean, independently of how they are read: the grammar of *)
(* JSON whose objects repeat no key.  A judgment says that a text is a     *)
(* value, the elements of an array or the members of an object.            *)
(***************************************************************************)
CanJudgment(is, of, text) == [is |-> is, of |-> of, text |-> text]

CanOf(J, is) == {j \in J : j.is = is}

\* The judgments that follow from those of J by one rule of the grammar.
CanJudge(J) ==
  {CanJudgment("value", CanScalar(t), <<t>>) : t \in CanScalars \cup CanKeys}
  \cup {CanJudgment("value", CanArray(<<>>), <<"[", "]">>),
        CanJudgment("value", CanObject(<<>>), <<"{", "}">>)}
  \cup {CanJudgment("value", CanArray(e.of), <<"[">> \o e.text \o <<"]">>) : e \in CanOf(J, "elements")}
  \cup {CanJudgment("value", CanObject(m.of), <<"{">> \o m.text \o <<"}">>) : m \in CanOf(J, "members")}
  \cup {CanJudgment("elements", <<v.of>>, v.text) : v \in CanOf(J, "value")}
  \cup {CanJudgment("elements", Append(e.of, v.of), e.text \o <<",">> \o v.text) :
          e \in CanOf(J, "elements"), v \in CanOf(J, "value")}
  \cup {CanJudgment("members", <<CanEntry(k, v.of)>>, <<k, ":">> \o v.text) :
          k \in CanKeys, v \in CanOf(J, "value")}
  \cup UNION {{CanJudgment("members", Append(m.of, CanEntry(k, v.of)), m.text \o <<",", k, ":">> \o v.text) :
                 v \in CanOf(J, "value"), k \in {key \in CanKeys : CanFresh(m.of, key)}} :
                 m \in CanOf(J, "members")}

\* The judgments with a derivation of height n.
CanJudgments(n) ==
  LET Derived[i \in 0 .. n] == IF i = 0 THEN {} ELSE Derived[i - 1] \cup CanJudge(Derived[i - 1])
  IN  Derived[n]

CanDerives(is, of, text) == \E n \in Nat : CanJudgment(is, of, text) \in CanJudgments(n)

(* The parser reads the language exactly: what it accepts is, token by token,  *)
(* a text of the value it returns, in which no object repeats a key, and it    *)
(* refuses no text of any value.                                               *)
CanReadsExactly ==
  /\ canState = "accepted" => CanDerives("value", canRoot, canText)
  /\ canState = "refused" => \A v : ~CanDerives("value", v, canText)
=============================================================================
