--------------------------- MODULE CanonicalJson ---------------------------
(***************************************************************************)
(* What every digest of the system is computed from: the strict JSON       *)
(* parser, the canonical serialization with sorted keys, and the check     *)
(* that an integer token is not rounded when it is read.                   *)
(***************************************************************************)
EXTENDS Integers, FiniteSets, StrictJsonParser
LOCAL INSTANCE TLC

CONSTANTS
  CanDigits,        \* bound: digits of the integer and of the fractional part
  CanExponent       \* bound: the exponent of a number token, in either direction

ASSUME CanAssumption == CanDigits \in Nat \ {0} /\ CanExponent \in Nat

VARIABLE
  canNumber         \* a number token

canVars == <<canText, canOffset, canStack, canRoot, canState, canNumber>>

\* ------------------------------------------------------------------ values and their texts

CanJoin(texts) ==
  FoldLeft(LAMBDA sum, t : IF sum = <<>> THEN t ELSE sum \o <<",">> \o t, <<>>, texts)

\* Position of a key in code unit order.
CanRank(key) == CHOOSE i \in DOMAIN CanKeyOrder : CanKeyOrder[i] = key

MutCanSorted(entries) == entries

\* canonicalize: the keys of an object are sorted.
CanSorted(entries) == SortSeq(entries, LAMBDA x, y : CanRank(x.key) < CanRank(y.key))

\* The text of a value, with its entries as they are or sorted at every level.
RECURSIVE CanTextOf(_, _)
CanTextOf(v, sorted) ==
  CASE v.is = "scalar" -> <<v.token>>
    [] v.is = "array" ->
         <<"[">> \o CanJoin([i \in DOMAIN v.items |-> CanTextOf(v.items[i], sorted)]) \o <<"]">>
    [] v.is = "object" ->
         LET entries == IF sorted THEN CanSorted(v.entries) ELSE v.entries IN
           <<"{">> \o CanJoin([i \in DOMAIN entries |->
                        <<entries[i].key, ":">> \o CanTextOf(entries[i].value, sorted)]) \o <<"}">>

CanCanonical(v) == CanTextOf(v, TRUE)

\* Values nested twice, with at most two members each; entries may repeat a key.
CanOver(S) ==
  LET entries == [key : CanKeys, value : S] IN
    {CanArray(s) : s \in SeqOf(S, 2)} \cup {CanObject(s) : s \in SeqOf(entries, 2)}
CanFlat == {CanScalar(t) : t \in CanScalars}
CanValues == CanFlat \cup CanOver(CanFlat \cup CanOver(CanFlat))

RECURSIVE CanUnique(_)
CanUnique(v) ==
  CASE v.is = "scalar" -> TRUE
    [] v.is = "array" -> \A i \in DOMAIN v.items : CanUnique(v.items[i])
    [] v.is = "object" ->
         /\ Cardinality({v.entries[i].key : i \in DOMAIN v.entries}) = Len(v.entries)
         /\ \A i \in DOMAIN v.entries : CanUnique(v.entries[i].value)

\* Texts a peer may send: the text of a value, whole or with a token lost.
CanTexts ==
  LET whole == {CanTextOf(v, FALSE) : v \in CanValues} IN
    whole \cup UNION {{RemoveAt(t, i) : i \in DOMAIN t} : t \in whole}

CanNext == CanParserNext /\ UNCHANGED canNumber

\* ------------------------------------------------------------------ number tokens

CanDigitStrings(least) == UNION {[1..n -> {0, 1}] : n \in least..CanDigits}

\* Tokens of the JSON grammar: no leading zero but that of a zero.
CanNumbers ==
  [sign : {1, -1}, integer : {s \in CanDigitStrings(1) : Len(s) > 1 => s[1] # 0},
   fraction : CanDigitStrings(0), exponent : -CanExponent..CanExponent]

\* Without leading and trailing zeros.
CanTrimmed(digits, nonzero) ==
  SubSeq(digits, CHOOSE i \in nonzero : \A j \in nonzero : i <= j,
                 CHOOSE i \in nonzero : \A j \in nonzero : j <= i)

\* normalizedDecimalIdentity: sign, significant digits and exponent; zero has no sign.
CanIdentity(number) ==
  LET digits == number.integer \o number.fraction
      nonzero == {i \in DOMAIN digits : digits[i] # 0}
      last == CHOOSE i \in nonzero : \A j \in nonzero : j <= i
  IN IF nonzero = {} THEN [sign |-> 1, digits |-> <<>>, exponent |-> 0]
     ELSE [sign |-> number.sign, digits |-> CanTrimmed(digits, nonzero),
           exponent |-> number.exponent - Len(number.fraction) + (Len(digits) - last)]

RECURSIVE CanWhole(_)
CanWhole(digits) == IF digits = <<>> THEN 0 ELSE 10 * CanWhole(Front(digits)) + Last(digits)

\* The value of a number token, in units of 10^-(CanExponent + CanDigits).
CanAmount(n) ==
  n.sign * CanWhole(n.integer \o n.fraction)
    * 10 ^ (n.exponent - Len(n.fraction) + CanExponent + CanDigits)

\* external: Number.isInteger of the number a token stands for.
CanIsInteger(n) == CanAmount(n) % (10 ^ (CanExponent + CanDigits)) = 0

\* assertUnroundedIntegerToken: kept is the token JSON.stringify gives for the number that was
\* read.  A number that is no integer is never compared.
CanUnrounded(token, kept) == CanIsInteger(kept) => CanIdentity(token) = CanIdentity(kept)

CanZero == [sign |-> 1, integer |-> <<0>>, fraction |-> <<>>, exponent |-> 0]

CanTextInit == canText \in CanTexts /\ canNumber = CanZero /\ CanStart
CanNumberInit == canText = <<>> /\ canNumber \in CanNumbers /\ CanStart

\* ------------------------------------------------------------------ properties

\* What a value means: objects are maps, the order of their entries is nothing.
RECURSIVE CanMeaning(_)
CanMeaning(v) ==
  CASE v.is = "scalar" -> <<"scalar", v.token>>
    [] v.is = "array" -> <<"array", [i \in DOMAIN v.items |-> CanMeaning(v.items[i])]>>
    [] v.is = "object" ->
         <<"object", {<<v.entries[i].key, CanMeaning(v.entries[i].value)>> : i \in DOMAIN v.entries}>>

CanProper == {v \in CanValues : CanUnique(v)}
CanProperTexts == {CanTextOf(v, FALSE) : v \in CanProper}
CanIdentities == {<<CanCanonical(v), CanMeaning(v)>> : v \in CanProper}

(* The parser reads exactly what was sent: an accepted text is token by token  *)
(* the text of the value returned, which repeats no key, and the text of a     *)
(* value without repeated keys is never refused.                               *)
CanParsedExactly ==
  /\ canState = "accepted" => CanTextOf(canRoot, FALSE) = canText /\ CanUnique(canRoot)
  /\ canState = "refused" => canText \notin CanProperTexts

(* The digest's text identifies a value: an accepted value and any other have  *)
(* the same canonical text exactly when they mean the same, whatever the order *)
(* their entries were sent or inserted in.                                     *)
CanIdentifies ==
  canState = "accepted" =>
    \A other \in CanIdentities :
      (other[1] = CanCanonical(canRoot)) = (other[2] = CanMeaning(canRoot))

(* Whatever number a token is rounded to when it is read: if that is an       *)
(* integer, the check lets it pass exactly when it is the number the token     *)
(* wrote, so zeros, signs of zero and exponents cost no acceptance and hide no *)
(* rounding.  A fraction passes rounded or not: assertUnroundedIntegerToken    *)
(* returns before it compares one.                                             *)
CanNumberExact ==
  canText = <<>> /\ canState # "reading" =>
    \A kept \in CanNumbers :
      CanUnrounded(canNumber, kept) =
        (~CanIsInteger(kept) \/ CanAmount(kept) = CanAmount(canNumber))

(* The digest of a value is of that value: the parser returns what the tokens  *)
(* say, the canonical text identifies it, and no token is kept as an integer   *)
(* other than the one it wrote.                                                *)
CanonicalExact == CanParsedExactly /\ CanIdentifies /\ CanNumberExact
=============================================================================
