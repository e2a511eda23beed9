---------------------------- MODULE Packets_proofs ----------------------------
(****************************************************************************)
(* For every four bytes: what is made of them is a valid locale in its      *)
(* normal form, and writing that and reading it again changes nothing.      *)
(* For all names of locales, texts, keys and messages: an Init packet has   *)
(* the size the server insists on, what the packets carry arrives at the    *)
(* other end, and SimpleJsonParse() finds nothing.                          *)
(****************************************************************************)
EXTENDS Packets, SequenceTheorems, TLAPS

------------------------------------------------------------------------------
(* Locales. *)

\* Changing the case of a letter gives a letter of that case, which stays.
LEMMA CaseOfLetter ==
    ASSUME NEW c \in Letter, NEW up \in BOOLEAN
    PROVE  /\ InCase(c, up) \in Letter
           /\ InCase(c, up) \in Char
           /\ InCase(InCase(c, up), up) = InCase(c, up)
BY SMT DEF Letter, LowerCase, UpperCase, InCase, Char

\* A pair that is not empty is still not empty with its case changed.
LEMMA LettersAreNotEmpty ==
    ASSUME NEW c \in Letter, NEW d
    PROVE  <<c, d>> # Empty
BY SMT DEF Letter, LowerCase, UpperCase, Empty

\* Whatever the pair, ChangeCase() gives a valid one, which it then leaves alone.
LEMMA CaseOfPair ==
    ASSUME NEW pair \in DoubleChar, NEW up \in BOOLEAN
    PROVE  /\ ChangeCase(pair, up) \in DoubleChar
           /\ PairIsValid(ChangeCase(pair, up))
           /\ ChangeCase(ChangeCase(pair, up), up) = ChangeCase(pair, up)
<1> DEFINE changed == <<InCase(pair[1], up), InCase(pair[2], up)>>
<1>0. Empty \in DoubleChar /\ PairIsValid(Empty) /\ ChangeCase(Empty, up) = Empty
    BY SMT DEF Empty, DoubleChar, Char, PairIsValid, ChangeCase
<1>1. CASE PairIsValid(pair) /\ pair # Empty
    <2>1. pair[1] \in Letter /\ pair[2] \in Letter
        BY <1>1 DEF PairIsValid
    <2>2. ChangeCase(pair, up) = changed
        BY <1>1 DEF ChangeCase
    <2>3. /\ changed[1] \in Letter /\ changed[2] \in Letter
          /\ changed[1] \in Char /\ changed[2] \in Char
          /\ InCase(changed[1], up) = changed[1] /\ InCase(changed[2], up) = changed[2]
        BY <2>1, CaseOfLetter
    <2>4. changed \in DoubleChar
        BY <2>3 DEF DoubleChar
    <2>5. changed # Empty
        BY <2>3, LettersAreNotEmpty
    <2>6. PairIsValid(changed)
        BY <2>3 DEF PairIsValid
    <2>7. ChangeCase(changed, up) = changed
        BY <2>3, <2>5, <2>6 DEF ChangeCase
    <2> QED BY <2>2, <2>4, <2>6, <2>7
<1>2. CASE ~(PairIsValid(pair) /\ pair # Empty)
    <2>1. ChangeCase(pair, up) = Empty
        BY <1>2 DEF ChangeCase
    <2> QED BY <1>0, <2>1
<1> QED BY <1>1, <1>2

\* A locale in normal form: what the reader makes of any bytes.
Normal(locale) ==
    /\ locale \in Locales
    /\ IsValid(locale)
    /\ ChangeCase(locale.LanguageCode, FALSE) = locale.LanguageCode
    /\ ChangeCase(locale.CountryCode, TRUE) = locale.CountryCode

LEMMA NoLocaleIsNormal == Normal(NoLocale)
<1>1. Empty \in DoubleChar /\ PairIsValid(Empty)
    BY SMT DEF Empty, DoubleChar, Char, PairIsValid
<1>2. ChangeCase(Empty, TRUE) = Empty /\ ChangeCase(Empty, FALSE) = Empty
    BY DEF ChangeCase
<1> QED BY <1>1, <1>2 DEF Normal, NoLocale, Locales, IsValid

LEMMA CharOfByte == ASSUME NEW b \in Byte PROVE ToChar(b) \in Char
BY SMT DEF Byte, Char, ToChar

\* LocaleInfo's operator>> never yields a locale that operator<< would refuse to print,
\* and it is in normal form, whatever a peer has put in its packet.
THEOREM ReadIsNormal == ASSUME NEW bytes \in [1 .. 4 -> Byte] PROVE Normal(Read(bytes))
<1> DEFINE language == <<ToChar(bytes[1]), ToChar(bytes[2])>>
           country  == <<ToChar(bytes[3]), ToChar(bytes[4])>>
           lower    == ChangeCase(language, FALSE)
           upper    == ChangeCase(country, TRUE)
<1>1. bytes[1] \in Byte /\ bytes[2] \in Byte /\ bytes[3] \in Byte /\ bytes[4] \in Byte
    BY SMT
<1>2. language \in DoubleChar /\ country \in DoubleChar
    BY <1>1, CharOfByte DEF DoubleChar
<1>3. CASE PairIsValid(language) /\ language # Empty
    <2>1. Read(bytes) = [LanguageCode |-> lower, CountryCode |-> upper]
        BY <1>3 DEF Read, CountryRead
    <2>2. /\ lower \in DoubleChar /\ PairIsValid(lower) /\ ChangeCase(lower, FALSE) = lower
          /\ upper \in DoubleChar /\ PairIsValid(upper) /\ ChangeCase(upper, TRUE) = upper
        BY <1>2, CaseOfPair
    <2>3. lower # Empty
        <3>1. language[1] \in Letter
            BY <1>3 DEF PairIsValid
        <3>2. InCase(language[1], FALSE) \in Letter
            BY <3>1, CaseOfLetter
        <3> QED BY <1>3, <3>2, LettersAreNotEmpty DEF ChangeCase
    <2> HIDE DEF lower, upper
    <2> DEFINE locale == [LanguageCode |-> lower, CountryCode |-> upper]
    <2>4. locale \in Locales /\ locale.LanguageCode = lower /\ locale.CountryCode = upper
        BY <2>2 DEF Locales
    <2> HIDE DEF locale
    <2>5. IsValid(locale)
        BY <2>2, <2>3, <2>4 DEF IsValid
    <2>6. Normal(locale)
        BY <2>2, <2>4, <2>5 DEF Normal
    <2> QED BY <2>1, <2>6 DEF locale
<1>4. CASE ~(PairIsValid(language) /\ language # Empty)
    BY <1>4, NoLocaleIsNormal DEF Read
<1> QED BY <1>3, <1>4

LEMMA TwoPairs ==
    ASSUME NEW a, NEW b, NEW c, NEW d
    PROVE  LET four == <<a, b>> \o <<c, d>>
           IN  Len(four) = 4 /\ four[1] = a /\ four[2] = b /\ four[3] = c /\ four[4] = d
OBVIOUS

\* The four bytes of a locale in normal form, spelled out.
LEMMA WrittenNormal ==
    ASSUME NEW locale, Normal(locale)
    PROVE  /\ Written(locale) = locale.LanguageCode \o locale.CountryCode
           /\ Len(Written(locale)) = 4
           /\ Written(locale)[1] = locale.LanguageCode[1] /\ Written(locale)[2] = locale.LanguageCode[2]
           /\ Written(locale)[3] = locale.CountryCode[1]  /\ Written(locale)[4] = locale.CountryCode[2]
<1> DEFINE language == locale.LanguageCode
           country  == locale.CountryCode
<1>1. /\ language \in DoubleChar /\ country \in DoubleChar
      /\ ChangeCase(language, FALSE) = language /\ ChangeCase(country, TRUE) = country
      /\ language = Empty => country = Empty
    BY DEF Normal, IsValid, Locales
<1>2. Written(locale) = language \o country
    BY <1>1 DEF Written
<1>3. language = <<language[1], language[2]>> /\ country = <<country[1], country[2]>>
    BY <1>1 DEF DoubleChar
<1>4. Written(locale) = <<language[1], language[2]>> \o <<country[1], country[2]>>
    BY <1>2, <1>3
<1> HIDE DEF language, country
<1>5. /\ Len(Written(locale)) = 4
      /\ Written(locale)[1] = language[1] /\ Written(locale)[2] = language[2]
      /\ Written(locale)[3] = country[1]  /\ Written(locale)[4] = country[2]
    BY <1>4, TwoPairs
<1> QED BY <1>2, <1>5 DEF language, country

\* A pair of a normal locale has no char that a byte would change.
LEMMA ValidPairKeepsItsChars ==
    ASSUME NEW pair \in DoubleChar, PairIsValid(pair)
    PROVE  <<ToChar(pair[1]), ToChar(pair[2])>> = pair
<1>1. pair[1] \in 0 .. 127 /\ pair[2] \in 0 .. 127
    BY SMT DEF PairIsValid, Letter, LowerCase, UpperCase, Empty
<1>2. ToChar(pair[1]) = pair[1] /\ ToChar(pair[2]) = pair[2]
    BY <1>1, SMT DEF ToChar
<1>3. pair = <<pair[1], pair[2]>>
    BY DEF DoubleChar
<1> QED BY <1>2, <1>3

\* A locale that has been received can be passed on any number of times: written and read
\* again it is the same.
THEOREM ReadOfWritten ==
    ASSUME NEW bytes \in [1 .. 4 -> Byte]
    PROVE  Read(Written(Read(bytes))) = Read(bytes)
<1> DEFINE locale   == Read(bytes)
           language == locale.LanguageCode
           country  == locale.CountryCode
           w        == Written(locale)
<1>1. Normal(locale)
    BY ReadIsNormal
<1> HIDE DEF locale
<1>2. /\ language \in DoubleChar /\ country \in DoubleChar
      /\ PairIsValid(language) /\ PairIsValid(country)
      /\ ChangeCase(language, FALSE) = language /\ ChangeCase(country, TRUE) = country
      /\ language = Empty => country = Empty
      /\ locale = [LanguageCode |-> language, CountryCode |-> country]
    BY <1>1 DEF Normal, IsValid, Locales
<1>3. w[1] = language[1] /\ w[2] = language[2] /\ w[3] = country[1] /\ w[4] = country[2]
    BY <1>1, WrittenNormal
<1>4. <<ToChar(w[1]), ToChar(w[2])>> = language /\ <<ToChar(w[3]), ToChar(w[4])>> = country
    BY <1>2, <1>3, ValidPairKeepsItsChars
<1> HIDE DEF language, country, w
<1>5. ASSUME language # Empty PROVE Read(w) = locale
    BY <1>2, <1>4, <1>5 DEF Read, CountryRead
<1>6. ASSUME language = Empty PROVE Read(w) = locale
    BY <1>2, <1>4, <1>6 DEF Read, NoLocale
<1>7. Read(w) = locale
    BY <1>5, <1>6
<1> QED BY <1>7 DEF w, locale

LEMMA PairAndNothing ==
    ASSUME NEW a, NEW b
    PROVE  LET two == <<a, b>> \o << >> IN Len(two) = 2 /\ two[1] = a /\ two[2] = b
OBVIOUS

LEMMA PairsAndSeparator ==
    ASSUME NEW a, NEW b, NEW c, NEW d
    PROVE  LET five == <<a, b>> \o (<<Separator>> \o <<c, d>>)
           IN  Len(five) = 5 /\ five[1] = a /\ five[2] = b /\ five[3] = Separator /\ five[4] = c /\ five[5] = d
BY DEF Separator

\* A locale that has been received survives being printed and parsed, as it is when it
\* passes through JSON or a configuration file.
THEOREM ParsedOfPrinted ==
    ASSUME NEW bytes \in [1 .. 4 -> Byte]
    PROVE  Parsed(Printed(Read(bytes))) = Read(bytes)
<1> DEFINE locale   == Read(bytes)
           language == locale.LanguageCode
           country  == locale.CountryCode
           text     == Printed(locale)
<1>1. Normal(locale)
    BY ReadIsNormal
<1> HIDE DEF locale
<1>2. /\ language \in DoubleChar /\ country \in DoubleChar
      /\ ChangeCase(language, FALSE) = language /\ ChangeCase(country, TRUE) = country
      /\ language = Empty => country = Empty
      /\ locale = [LanguageCode |-> language, CountryCode |-> country]
    BY <1>1 DEF Normal, IsValid, Locales
<1>3. text = IF language = Empty THEN << >>
             ELSE language \o IF country = Empty THEN << >> ELSE <<Separator>> \o country
    BY <1>2 DEF Printed
<1> HIDE DEF language, country, text
<1>4. language = <<language[1], language[2]>> /\ country = <<country[1], country[2]>>
    BY <1>2 DEF DoubleChar
<1>5. ASSUME language = Empty PROVE Parsed(text) = locale
    BY <1>2, <1>3, <1>5 DEF Parsed, FromText
<1>6. ASSUME language # Empty, country = Empty PROVE Parsed(text) = locale
    <2>1. Len(text) = 2 /\ text[1] = language[1] /\ text[2] = language[2]
        BY <1>3, <1>4, <1>6, PairAndNothing
    <2> QED BY <1>2, <1>4, <1>6, <2>1 DEF Parsed, FromText
<1>7. ASSUME language # Empty, country # Empty PROVE Parsed(text) = locale
    <2>1. text = <<language[1], language[2]>> \o (<<Separator>> \o <<country[1], country[2]>>)
        BY <1>3, <1>4, <1>7
    <2>2. /\ Len(text) = 5 /\ text[3] = Separator
          /\ text[1] = language[1] /\ text[2] = language[2]
          /\ text[4] = country[1]  /\ text[5] = country[2]
        BY <2>1, PairsAndSeparator
    <2> QED BY <1>2, <1>4, <2>2 DEF Parsed, FromText
<1>8. Parsed(text) = locale
    BY <1>5, <1>6, <1>7
<1> QED BY <1>8 DEF text, locale

\* The pairs operator<< writes.
LEMMA WrittenPairs ==
    ASSUME NEW locale \in Locales
    PROVE  LET language == ChangeCase(locale.LanguageCode, FALSE)
               country  == ChangeCase(locale.CountryCode, TRUE)
           IN  /\ language \in DoubleChar /\ PairIsValid(language) /\ ChangeCase(language, FALSE) = language
               /\ country \in DoubleChar /\ PairIsValid(country) /\ ChangeCase(country, TRUE) = country
BY CaseOfPair DEF Locales

LEMMA ValidPairIsBytes ==
    ASSUME NEW pair \in DoubleChar, PairIsValid(pair)
    PROVE  pair[1] \in Byte /\ pair[2] \in Byte
BY SMT DEF PairIsValid, Letter, LowerCase, UpperCase, Empty, Byte

LEMMA FourBytes ==
    ASSUME NEW a \in Byte, NEW b \in Byte, NEW c \in Byte, NEW d \in Byte
    PROVE  <<a, b>> \o <<c, d>> \in [1 .. 4 -> Byte]
<1> HIDE DEF Byte
<1>1. <<a, b>> \o <<c, d>> \in Seq(Byte) /\ Len(<<a, b>> \o <<c, d>>) = 4
    OBVIOUS
<1> QED
    BY <1>1, LenProperties

\* Every locale takes four bytes, valid or not: an Init packet always has the size the
\* server's Connection expects.
THEOREM WrittenHasFour == ASSUME NEW locale \in Locales PROVE Written(locale) \in [1 .. 4 -> Byte]
<1> DEFINE language == ChangeCase(locale.LanguageCode, FALSE)
           country  == ChangeCase(locale.CountryCode, TRUE)
<1>1. /\ language \in DoubleChar /\ PairIsValid(language)
      /\ country \in DoubleChar /\ PairIsValid(country)
    BY WrittenPairs
<1>2. Written(locale) = IF language = Empty THEN Empty \o Empty ELSE language \o country
    BY DEF Written
<1> HIDE DEF language, country
<1>3. language = <<language[1], language[2]>> /\ country = <<country[1], country[2]>>
    BY <1>1 DEF DoubleChar
<1>4. language[1] \in Byte /\ language[2] \in Byte /\ country[1] \in Byte /\ country[2] \in Byte /\ 0 \in Byte
    BY <1>1, ValidPairIsBytes DEF Byte
<1>5. <<language[1], language[2]>> \o <<country[1], country[2]>> \in [1 .. 4 -> Byte]
    BY <1>4, FourBytes, Zenon
<1>6. <<0, 0>> \o <<0, 0>> \in [1 .. 4 -> Byte]
    BY <1>4, FourBytes, Zenon
<1> QED
    BY <1>2, <1>3, <1>5, <1>6, Zenon DEF Empty

LEMMA NonEmptyStays ==
    ASSUME NEW pair \in DoubleChar, PairIsValid(pair), NEW up \in BOOLEAN
    PROVE  pair = Empty <=> ChangeCase(pair, up) = Empty
<1>1. CASE pair = Empty
    BY <1>1 DEF ChangeCase
<1>2. CASE pair # Empty
    <2>1. pair[1] \in Letter
        BY <1>2 DEF PairIsValid
    <2>2. InCase(pair[1], up) \in Letter
        BY <2>1, CaseOfLetter
    <2> QED
        BY <1>2, <2>2, LettersAreNotEmpty DEF ChangeCase
<1> QED
    BY <1>1, <1>2

\* A valid locale is printed by the one who receives it as by the one who sends it, who
\* may have written it in any case.
THEOREM PrintedAlike ==
    ASSUME NEW locale \in Locales, IsValid(locale)
    PROVE  Printed(Read(Written(locale))) = Printed(locale)
<1> DEFINE language == ChangeCase(locale.LanguageCode, FALSE)
           country  == ChangeCase(locale.CountryCode, TRUE)
           w        == Written(locale)
<1>1. /\ language \in DoubleChar /\ PairIsValid(language) /\ ChangeCase(language, FALSE) = language
      /\ country \in DoubleChar /\ PairIsValid(country) /\ ChangeCase(country, TRUE) = country
    BY WrittenPairs
<1>2. /\ locale.LanguageCode = Empty <=> language = Empty
      /\ locale.CountryCode = Empty <=> country = Empty
    BY NonEmptyStays DEF Locales, IsValid
<1>3. language = Empty => country = Empty
    BY <1>2 DEF IsValid
<1>4. Written(locale) = IF language = Empty THEN Empty \o Empty ELSE language \o country
    BY DEF Written
<1>5. Printed(locale) = IF language = Empty THEN << >>
                        ELSE language \o IF country = Empty THEN << >> ELSE <<Separator>> \o country
    BY <1>2 DEF Printed
<1> HIDE DEF language, country
<1>6. w = <<language[1], language[2]>> \o <<country[1], country[2]>>
    <2>1. language = <<language[1], language[2]>> /\ country = <<country[1], country[2]>>
        BY <1>1 DEF DoubleChar
    <2>2. w = language \o country
        BY <1>3, <1>4, Zenon
    <2> QED
        BY <2>1, <2>2, Zenon
<1> HIDE DEF w
<1>7. w[1] = language[1] /\ w[2] = language[2] /\ w[3] = country[1] /\ w[4] = country[2]
    BY <1>6, TwoPairs
<1>8. <<ToChar(w[1]), ToChar(w[2])>> = language /\ <<ToChar(w[3]), ToChar(w[4])>> = country
    BY <1>1, <1>7, ValidPairKeepsItsChars
<1>9. CASE language = Empty
    <2>1. Read(w) = NoLocale
        BY <1>8, <1>9, Zenon DEF Read
    <2>2. NoLocale.LanguageCode = Empty
        BY DEF NoLocale
    <2>3. Printed(NoLocale) = << >>
        BY <2>2, Zenon DEF Printed
    <2> QED
        BY <1>5, <1>9, <2>1, <2>3, Zenon DEF w
<1>10. CASE language # Empty
    <2> DEFINE read == [LanguageCode |-> language, CountryCode |-> country]
    <2>1. Read(w) = read
        BY <1>1, <1>8, <1>10, Zenon DEF Read, CountryRead
    <2>2. read.LanguageCode = language /\ read.CountryCode = country
        OBVIOUS
    <2> HIDE DEF read
    <2>3. Printed(read) = language \o IF country = Empty THEN << >> ELSE <<Separator>> \o country
        BY <1>1, <1>10, <2>2, Zenon DEF Printed
    <2> QED
        BY <1>5, <1>10, <2>1, <2>3, Zenon DEF w
<1> QED
    BY <1>9, <1>10

------------------------------------------------------------------------------
(* Packets. *)

NothingFound == value = << >>

\* SimpleJsonParse() finds nothing, whatever the text and the key are: its break leaves the
\* switch and not the loop, which then ends at the end of the text or with the value's first
\* character.  What FieldFound promises is kept for no text at all.
THEOREM JsonFindsNothing == Spec => []NothingFound
<1>1. Init => NothingFound
    BY DEF Init, NothingFound
<1>2. NothingFound /\ [Next]_vars => NothingFound'
    <2> SUFFICES ASSUME NothingFound, [Next]_vars PROVE NothingFound'
        OBVIOUS
    <2> USE DEF NothingFound
    <2>1. CASE SendInit \/ SendPlainInit \/ SendDisconnect \/ SendServerInfo \/ SendKick
        BY <2>1 DEF SendInit, SendPlainInit, SendDisconnect, SendServerInfo, SendKick, Send, SendBody, jsonVars
    <2>2. CASE \E e \in Ends : Receive(e)
        BY <2>2 DEF Receive, jsonVars
    <2>3. CASE Ask
        BY <2>3 DEF Ask
    <2>4. CASE FindKey
        BY <2>4 DEF FindKey, Return
    <2>5. CASE FindValue
        BY <2>5 DEF FindValue, OnQuote, Return
    <2>6. CASE UNCHANGED vars
        BY <2>6 DEF vars, jsonVars
    <2> QED BY <2>1, <2>2, <2>3, <2>4, <2>5, <2>6 DEF Next
<1> QED BY <1>1, <1>2, PTL DEF Spec

------------------------------------------------------------------------------
\* The system's locale, whatever its name, is a pair of pairs of chars.
LEMMA CurrentIsLocale == ASSUME NEW n \in Names PROVE Current(n) \in Locales
<1>1. n \in Seq(Char)
    BY PacketsAssumption
<1>2. Empty \in DoubleChar
    BY SMT DEF Empty, DoubleChar, Char
<1>3. Len(n) >= 2 => <<n[1], n[2]>> \in DoubleChar
    BY <1>1 DEF DoubleChar
<1>4. Len(n) >= 5 => <<n[4], n[5]>> \in DoubleChar
    BY <1>1 DEF DoubleChar
<1> HIDE DEF Char
<1> QED BY <1>2, <1>3, <1>4 DEF Current, FromText, Locales, NoLocale

------------------------------------------------------------------------------
(* Bodies: what is written, and what is cut out of it again. *)

LEMMA Cut ==
    ASSUME NEW A, NEW s \in Seq(A), NEW t \in Seq(A), NEW at \in Nat \ {0}, at + Len(t) - 1 <= Len(s),
           \A i \in 1 .. Len(t) : s[at + i - 1] = t[i]
    PROVE  Bytes(s, at, Len(t)) = t
<1> DEFINE n == at + Len(t) - 1
           cut == SubSeq(s, at, n)
<1>1. Len(t) \in Nat /\ Len(s) \in Nat /\ n \in Int /\ at \in Int /\ n - at + 1 = Len(t)
    BY LenProperties
<1>2. \A i \in at .. n : s[i] \in A
    BY <1>1
<1>3. /\ cut \in Seq(A) /\ Len(cut) = IF at <= n THEN n - at + 1 ELSE 0
      /\ \A i \in 1 .. n - at + 1 : cut[i] = s[at + i - 1]
    <2> HIDE DEF n
    <2> QED
        BY <1>1, <1>2, SubSeqProperties
<1>4. Len(cut) = Len(t)
    BY <1>1, <1>3
<1>5. \A i \in 1 .. Len(t) : cut[i] = t[i]
    BY <1>1, <1>3
<1> HIDE DEF cut, n
<1>6. cut = t
    BY <1>3, <1>4, <1>5, SeqEqual
<1> QED
    BY <1>6 DEF Bytes, cut, n

LEMMA Part ==
    ASSUME NEW A, NEW s \in Seq(A), NEW at \in Nat \ {0}, NEW n \in Nat, at + n - 1 <= Len(s)
    PROVE  Bytes(s, at, n) \in Seq(A) /\ Len(Bytes(s, at, n)) = n
<1> DEFINE m == at + n - 1
<1>1. Len(s) \in Nat /\ m \in Int /\ at \in Int /\ m - at + 1 = n
    BY LenProperties
<1>2. \A i \in at .. m : s[i] \in A
    BY <1>1
<1>3. SubSeq(s, at, m) \in Seq(A) /\ Len(SubSeq(s, at, m)) = IF at <= m THEN m - at + 1 ELSE 0
    <2> HIDE DEF m
    <2> QED
        BY <1>1, <1>2, SubSeqProperties
<1>4. Len(SubSeq(s, at, m)) = n
    BY <1>1, <1>3
<1> QED
    BY <1>3, <1>4 DEF Bytes

LEMMA ConcatBytes ==
    ASSUME NEW s \in Seq(Byte), NEW t \in Seq(Byte)
    PROVE  s \o t \in Seq(Byte) /\ Len(s \o t) = Len(s) + Len(t)
OBVIOUS

LEMMA ConcatLeft ==
    ASSUME NEW s \in Seq(Byte), NEW t \in Seq(Byte), NEW i \in 1 .. Len(s)
    PROVE  (s \o t)[i] = s[i]
OBVIOUS

LEMMA ConcatRight ==
    ASSUME NEW s \in Seq(Byte), NEW t \in Seq(Byte), NEW i \in 1 .. Len(t)
    PROVE  (s \o t)[Len(s) + i] = t[i]
OBVIOUS

Text == {text \in Seq(Byte) : Len(text) + 14 < 65536}

LEMMA BytesAreBytes ==
    ASSUME NEW n \in Nat, NEW b \in [1 .. n -> Byte]
    PROVE  b \in Seq(Byte) /\ Len(b) = n
<1>1. b \in Seq(Byte)
    BY SeqDef
<1>2. Len(b) \in Nat /\ 1 .. Len(b) = 1 .. n
    BY <1>1, LenProperties
<1> QED
    BY <1>1, <1>2

LEMMA GameBytes ==
    /\ GameName \in Seq(Byte) /\ Len(GameName) = 8
    /\ GameVersion \in Seq(Byte) /\ Len(GameVersion) = 4
<1>1. GameName \in [1 .. 8 -> Byte] /\ GameVersion \in [1 .. 4 -> Byte]
    BY PacketsAssumption
<1>2. 8 \in Nat /\ 4 \in Nat
    OBVIOUS
<1> QED
    BY <1>1, <1>2, BytesAreBytes, Zenon

\* The name and the version, with which two packets begin, and what follows.
LEMMA Preamble ==
    ASSUME NEW rest \in Seq(Byte)
    PROVE  LET body == GameName \o GameVersion \o rest
           IN  /\ body \in Seq(Byte) /\ Len(body) = 12 + Len(rest)
               /\ Bytes(body, 9, 4) = GameVersion
               /\ \A i \in 1 .. Len(rest) : body[12 + i] = rest[i]
<1> DEFINE a == GameName \o GameVersion
           body == a \o rest
<1>1. /\ a \in Seq(Byte) /\ Len(a) = 12
      /\ \A i \in 1 .. 4 : a[8 + i] = GameVersion[i]
    <2>1. /\ a \in Seq(Byte) /\ Len(a) = Len(GameName) + Len(GameVersion)
          /\ \A i \in 1 .. Len(GameVersion) : a[Len(GameName) + i] = GameVersion[i]
        <3>1. GameName \in Seq(Byte) /\ GameVersion \in Seq(Byte)
            BY GameBytes
        <3>2. \A i \in 1 .. Len(GameVersion) : a[Len(GameName) + i] = GameVersion[i]
            BY <3>1, ConcatRight
        <3> QED
            BY <3>1, <3>2, ConcatBytes
    <2> HIDE DEF a
    <2> QED
        BY <2>1, GameBytes
<1> HIDE DEF a
<1>2. /\ body \in Seq(Byte) /\ Len(body) = 12 + Len(rest)
      /\ \A i \in 1 .. 12 : body[i] = a[i]
      /\ \A i \in 1 .. Len(rest) : body[12 + i] = rest[i]
    <2>1. /\ body \in Seq(Byte) /\ Len(body) = Len(a) + Len(rest)
          /\ \A i \in 1 .. Len(a) : body[i] = a[i]
          /\ \A i \in 1 .. Len(rest) : body[Len(a) + i] = rest[i]
        <3>1. a \in Seq(Byte)
            BY <1>1
        <3>2. body \in Seq(Byte) /\ Len(body) = Len(a) + Len(rest)
            BY <3>1, ConcatBytes
        <3>3. \A i \in 1 .. Len(a) : body[i] = a[i]
            BY <3>1, ConcatLeft
        <3>4. \A i \in 1 .. Len(rest) : body[Len(a) + i] = rest[i]
            BY <3>1, ConcatRight
        <3> HIDE DEF body
        <3> QED
            BY <3>2, <3>3, <3>4
    <2> HIDE DEF body
    <2> QED
        BY <1>1, <2>1
<1>3. Len(rest) \in Nat
    BY LenProperties
<1> HIDE DEF body
<1>4. Bytes(body, 9, 4) = GameVersion
    <2> DEFINE at == 9
    <2>1. ASSUME NEW i \in 1 .. Len(GameVersion) PROVE body[at + i - 1] = GameVersion[i]
        <3>1. i \in 1 .. 4 /\ 8 + i \in 1 .. 12 /\ 9 + i - 1 = 8 + i
            BY GameBytes
        <3> QED
            BY <1>1, <1>2, <3>1
    <2>2. at + Len(GameVersion) - 1 <= Len(body) /\ at \in Nat \ {0}
        BY <1>2, <1>3, GameBytes
    <2> HIDE DEF at
    <2>3. Bytes(body, at, Len(GameVersion)) = GameVersion
        BY <1>2, <2>1, <2>2, GameBytes, Cut, Zenon
    <2> QED
        BY <2>3, GameBytes DEF at
<1> QED
    BY <1>2, <1>4 DEF body, a

\* A text with its length before it, wherever it is in a body, is read as it was written.
LEMMA TextIsRead ==
    ASSUME NEW text \in Text, NEW body \in Seq(Byte), NEW at \in Nat \ {0},
           Len(body) = at + 1 + Len(text),
           \A i \in 1 .. Len(text) + 2 : body[at + i - 1] = StringBytes(text)[i]
    PROVE  HasString(body, at) /\ String(body, at) = text
<1> DEFINE n == Len(text)
           low == n % 256
           high == n \div 256
<1>1. text \in Seq(Byte) /\ n \in Nat /\ n < 65536 /\ at \in Nat
    BY LenProperties DEF Text
<1>2. low + 256 * high = n
    BY <1>1
<1>3. /\ StringBytes(text)[1] = low /\ StringBytes(text)[2] = high
      /\ \A i \in 1 .. n : StringBytes(text)[2 + i] = text[i]
    <2>1. low \in 0 .. 255 /\ high \in 0 .. 255
        <3> HIDE DEF n
        <3> QED
            BY <1>1
    <2> HIDE DEF low, high
    <2>2. <<low, high>> \in Seq(Byte) /\ Len(<<low, high>>) = 2
        BY <2>1 DEF Byte
    <2>3. <<low, high>>[1] = low /\ <<low, high>>[2] = high
        OBVIOUS
    <2> DEFINE two == <<low, high>>
    <2>4. two \in Seq(Byte) /\ Len(two) = 2 /\ two[1] = low /\ two[2] = high
        BY <2>2, <2>3
    <2> HIDE DEF two
    <2>5. 1 \in 1 .. Len(two) /\ 2 \in 1 .. Len(two)
        BY <2>4
    <2>6. text \in Seq(Byte) /\ two \in Seq(Byte)
        BY <1>1, <2>4
    <2>7. /\ \A i \in 1 .. Len(two) : (two \o text)[i] = two[i]
          /\ \A i \in 1 .. n : (two \o text)[Len(two) + i] = text[i]
        <3>1. ASSUME NEW i \in 1 .. Len(two) PROVE (two \o text)[i] = two[i]
            BY <2>6, <3>1, ConcatLeft, Zenon
        <3>2. ASSUME NEW i \in 1 .. n PROVE (two \o text)[Len(two) + i] = text[i]
            BY <2>6, <3>2, ConcatRight, Zenon
        <3> QED
            BY <3>1, <3>2
    <2> HIDE DEF n
    <2>8. StringBytes(text) = two \o text
        BY DEF StringBytes, two, low, high, n
    <2> QED
        <3> DEFINE w == two \o text
        <3>1. /\ \A i \in 1 .. Len(two) : w[i] = two[i]
              /\ \A i \in 1 .. n : w[Len(two) + i] = text[i]
            BY <2>7
        <3> HIDE DEF w
        <3>2. w[1] = low /\ w[2] = high /\ \A i \in 1 .. n : w[2 + i] = text[i]
            BY <2>4, <2>5, <3>1
        <3> QED
            BY <2>8, <3>2, Zenon DEF w
<1> HIDE DEF low, high
<1>4. body[at] = low /\ body[at + 1] = high
    <2>1. 1 \in 1 .. n + 2 /\ 2 \in 1 .. n + 2 /\ at + 1 - 1 = at /\ at + 2 - 1 = at + 1
        BY <1>1
    <2>2. body[at + 1 - 1] = StringBytes(text)[1] /\ body[at + 2 - 1] = StringBytes(text)[2]
        BY <2>1
    <2> QED
        BY <1>3, <2>1, <2>2
<1>5. Uint16(body, at) = n
    BY <1>2, <1>4 DEF Uint16
<1>6. HasString(body, at)
    BY <1>1, <1>5 DEF HasString, Has
<1>7. Bytes(body, at + 2, n) = text
    <2>1. ASSUME NEW i \in 1 .. n PROVE body[at + 2 + i - 1] = text[i]
        <3>1. 2 + i \in 1 .. n + 2 /\ at + (2 + i) - 1 = at + 2 + i - 1
            BY <1>1
        <3>2. body[at + (2 + i) - 1] = StringBytes(text)[2 + i]
            BY <3>1
        <3> QED
            BY <1>3, <3>1, <3>2
    <2> DEFINE from == at + 2
    <2>2. from \in Nat \ {0} /\ from + Len(text) - 1 <= Len(body)
        BY <1>1
    <2>3. \A i \in 1 .. Len(text) : body[from + i - 1] = text[i]
        BY <2>1
    <2> HIDE DEF from
    <2>4. Bytes(body, from, Len(text)) = text
        <3>1. text \in Seq(Byte)
            BY <1>1
        <3> QED
            BY <2>2, <2>3, <3>1, Cut, Zenon
    <2> QED
        BY <2>4 DEF from
<1> QED
    BY <1>5, <1>6, <1>7 DEF String

LEMMA StringIsBytes ==
    ASSUME NEW text \in Text
    PROVE  StringBytes(text) \in Seq(Byte) /\ Len(StringBytes(text)) = Len(text) + 2
<1>1. text \in Seq(Byte) /\ Len(text) \in Nat /\ Len(text) < 65536
    BY LenProperties DEF Text
<1>2. Len(text) % 256 \in Byte /\ Len(text) \div 256 \in Byte
    <2> DEFINE n == Len(text)
    <2>1. n \in Nat /\ n < 65536
        BY <1>1
    <2> HIDE DEF n
    <2>2. n % 256 \in 0 .. 255 /\ n \div 256 \in 0 .. 255
        BY <2>1
    <2> QED
        BY <2>2 DEF Byte, n
<1> DEFINE two == <<Len(text) % 256, Len(text) \div 256>>
<1>3. two \in Seq(Byte) /\ Len(two) = 2
    <2> HIDE DEF Byte
    <2> QED
        BY <1>2
<1> HIDE DEF two
<1>4. two \o text \in Seq(Byte) /\ Len(two \o text) = Len(two) + Len(text)
    <2>1. two \in Seq(Byte) /\ text \in Seq(Byte)
        BY <1>1, <1>3
    <2> QED
        BY <2>1, ConcatBytes, Zenon
<1> QED
    BY <1>1, <1>3, <1>4 DEF StringBytes, two


\* The fields of an Init packet, whatever the four bytes of its locale.
LEMMA InitIsRead ==
    ASSUME NEW four \in [1 .. 4 -> Byte], NEW next \in Byte
    PROVE  LET body == GameName \o GameVersion \o four \o <<next>>
           IN  /\ body \in Seq(Byte) /\ Len(body) = InitSize
               /\ ReadInit(body) = [id |-> "Init", name |-> NoName, version |-> GameVersion,
                                    locale |-> Read(four), next |-> next]
<1> DEFINE rest == four \o <<next>>
           body == GameName \o GameVersion \o four \o <<next>>
           at == 13
<1>1. four \in Seq(Byte) /\ Len(four) = 4
    BY BytesAreBytes
<1>2. <<next>> \in Seq(Byte) /\ Len(<<next>>) = 1 /\ <<next>>[1] = next
    OBVIOUS
<1>3. /\ rest \in Seq(Byte) /\ Len(rest) = 5
      /\ \A i \in 1 .. 4 : rest[i] = four[i]
      /\ rest[5] = next
    <2> DEFINE one == <<next>>
    <2>1. one \in Seq(Byte) /\ Len(one) = 1 /\ one[1] = next /\ 1 \in 1 .. Len(one)
        BY <1>2
    <2> HIDE DEF one
    <2>2. four \o one \in Seq(Byte) /\ Len(four \o one) = Len(four) + Len(one)
        BY <1>1, <2>1, ConcatBytes
    <2>3. ASSUME NEW i \in 1 .. Len(four) PROVE (four \o one)[i] = four[i]
        BY <1>1, <2>1, <2>3, ConcatLeft, Zenon
    <2>4. (four \o one)[Len(four) + 1] = one[1]
        BY <1>1, <2>1, ConcatRight, Zenon
    <2> DEFINE both == four \o one
    <2>5. /\ both \in Seq(Byte) /\ Len(both) = Len(four) + Len(one)
          /\ \A i \in 1 .. Len(four) : both[i] = four[i]
          /\ both[Len(four) + 1] = one[1]
        BY <2>2, <2>3, <2>4
    <2> HIDE DEF both
    <2>6. both \in Seq(Byte) /\ Len(both) = 5 /\ (\A i \in 1 .. 4 : both[i] = four[i]) /\ both[5] = next
        BY <1>1, <2>1, <2>5
    <2> QED
        BY <2>6 DEF both, one
<1>4. body = GameName \o GameVersion \o rest
    <2> DEFINE game == GameName \o GameVersion
    <2>1. game \in Seq(Byte)
        BY GameBytes, ConcatBytes
    <2> HIDE DEF game
    <2>2. (game \o four) \o <<next>> = game \o (four \o <<next>>)
        <3>1. four \in Seq(Byte) /\ <<next>> \in Seq(Byte)
            BY <1>1, <1>2
        <3> QED
            BY <2>1, <3>1, ConcatAssociative, SMTT(60)
    <2> QED
        BY <2>2 DEF game
<1> HIDE DEF rest, body
<1>5. /\ body \in Seq(Byte) /\ Len(body) = 17
      /\ Bytes(body, 9, 4) = GameVersion
      /\ \A i \in 1 .. 5 : body[12 + i] = rest[i]
    <2>1. /\ body \in Seq(Byte) /\ Len(body) = 12 + Len(rest)
          /\ Bytes(body, 9, 4) = GameVersion
          /\ \A i \in 1 .. Len(rest) : body[12 + i] = rest[i]
        BY <1>3, <1>4, Preamble
    <2> QED
        BY <1>3, <2>1
<1>6. Bytes(body, at, Len(four)) = four
    <2>1. ASSUME NEW i \in 1 .. Len(four) PROVE body[at + i - 1] = four[i]
        <3>1. i \in 1 .. 4 /\ i \in 1 .. 5 /\ at + i - 1 = 12 + i
            BY <1>1
        <3> QED
            BY <1>3, <1>5, <3>1
    <2>2. at \in Nat \ {0} /\ at + Len(four) - 1 <= Len(body)
        BY <1>1, <1>5
    <2> HIDE DEF at
    <2> QED
        BY <1>1, <1>5, <2>1, <2>2, Cut
<1>7. body[17] = next
    <2>1. 5 \in 1 .. 5 /\ 12 + 5 = 17
        OBVIOUS
    <2> QED
        BY <1>3, <1>5, <2>1
<1>8. ReadInit(body) = [id |-> "Init", name |-> NoName, version |-> GameVersion,
                        locale |-> Read(four), next |-> next]
    <2>1. 1 + 8 + 4 = at /\ at + 4 = 17 /\ 1 + 8 = 9
        OBVIOUS
    <2> HIDE DEF at
    <2> QED
        BY <1>1, <1>5, <1>6, <1>7, <2>1, Zenon DEF ReadInit, AfterLocale
<1> QED
    BY <1>5, <1>8 DEF body, InitSize

\* The text of a ServerInfo, however long it is.
LEMMA ServerInfoIsRead ==
    ASSUME NEW text \in Text
    PROVE  LET body == WriteServerInfo(ServerInfo(text))
           IN  /\ body \in Seq(Byte) /\ body # << >>
               /\ ReadServerInfo(body) = [id |-> "ServerInfo", name |-> NoName, version |-> GameVersion, json |-> text]
<1> DEFINE rest == StringBytes(text)
           body == GameName \o GameVersion \o rest
           at == 13
           n == Len(text)
<1>1. rest \in Seq(Byte) /\ Len(rest) = n + 2 /\ n \in Nat
    BY StringIsBytes, LenProperties DEF Text
<1>2. WriteServerInfo(ServerInfo(text)) = body
    BY DEF WriteServerInfo, ServerInfo
<1> HIDE DEF rest, body, n
<1>3. /\ body \in Seq(Byte) /\ Len(body) = 12 + Len(rest)
      /\ Bytes(body, 9, 4) = GameVersion
      /\ \A i \in 1 .. Len(rest) : body[12 + i] = rest[i]
    BY <1>1, Preamble DEF body
<1>4. HasString(body, at) /\ String(body, at) = text
    <2>1. at \in Nat \ {0} /\ Len(body) = at + 1 + n
        BY <1>1, <1>3
    <2>2. ASSUME NEW i \in 1 .. n + 2 PROVE body[at + i - 1] = rest[i]
        <3>1. at + i - 1 = 12 + i
            BY <1>1
        <3> QED
            BY <1>1, <1>3, <3>1
    <2> HIDE DEF at
    <2> QED
        BY <1>3, <2>1, <2>2, TextIsRead DEF n, rest
<1>5. Has(body, 9, 4)
    BY <1>1, <1>3 DEF Has
<1>6. body # << >>
    BY <1>1, <1>3
<1>7. ReadServerInfo(body) = [id |-> "ServerInfo", name |-> NoName, version |-> GameVersion, json |-> text]
    <2>1. 1 + 8 + 4 = at /\ 1 + 8 = 9
        OBVIOUS
    <2> HIDE DEF at
    <2> QED
        BY <1>3, <1>4, <1>5, <2>1, Zenon DEF ReadServerInfo
<1> QED
    BY <1>2, <1>3, <1>6, <1>7

\* The type and the message of a Kick that has one.
LEMMA KickIsRead ==
    ASSUME NEW type \in Types, NEW text \in Text, text # << >>
    PROVE  LET body == WriteKick(Kick(type, text))
           IN  /\ body \in Seq(Byte) /\ body # << >>
               /\ ReadKick(body) = Kick(type, text)
<1> DEFINE rest == StringBytes(text)
           one  == <<type>>
           body == one \o rest
           n == Len(text)
<1>1. rest \in Seq(Byte) /\ Len(rest) = n + 2 /\ n \in Nat
    BY StringIsBytes, LenProperties DEF Text
<1>2. WriteKick(Kick(type, text)) = body
    BY DEF WriteKick, Kick
<1>3. one \in Seq(Byte) /\ Len(one) = 1 /\ one[1] = type /\ 1 \in 1 .. Len(one)
    BY DEF Types, Raw, Byte
<1> HIDE DEF rest, n, one
<1>4. body \in Seq(Byte) /\ Len(body) = Len(one) + Len(rest)
    BY <1>1, <1>3, ConcatBytes
<1>5. body[1] = type
    BY <1>1, <1>3, ConcatLeft
<1>6. ASSUME NEW i \in 1 .. Len(rest) PROVE body[Len(one) + i] = rest[i]
    BY <1>1, <1>3, <1>6, ConcatRight, Zenon
<1> HIDE DEF body
<1>7. HasString(body, 2) /\ String(body, 2) = text
    <2> DEFINE at == 2
    <2>1. at \in Nat \ {0} /\ Len(body) = at + 1 + n
        BY <1>1, <1>3, <1>4
    <2>2. ASSUME NEW i \in 1 .. n + 2 PROVE body[at + i - 1] = rest[i]
        <3>1. at + i - 1 = Len(one) + i /\ i \in 1 .. Len(rest)
            BY <1>1, <1>3
        <3> QED
            BY <1>6, <3>1
    <2> HIDE DEF at
    <2>3. HasString(body, at) /\ String(body, at) = text
        BY <1>4, <2>1, <2>2, TextIsRead DEF n, rest
    <2> QED
        BY <2>3 DEF at
<1>8. body # << >>
    BY <1>1, <1>3, <1>4
<1>9. ReadKick(body) = Kick(type, text)
    BY <1>5, <1>7, <1>8, Zenon DEF ReadKick
<1> QED
    BY <1>2, <1>4, <1>8, <1>9


------------------------------------------------------------------------------
(* The packets an end may have sent or received. *)

LEMMA AssumedTexts == Messages \subseteq Text /\ Jsons \subseteq Text
BY PacketsAssumption DEF Text

LEMMA InitIsPacket ==
    ASSUME NEW locale \in Locales, NEW next \in Steps
    PROVE  InitPacket(locale, next) \in AnyPacket
<1>1. GameName \in [1 .. 8 -> Byte] /\ GameVersion \in [1 .. 4 -> Byte]
    BY PacketsAssumption
<1>2. next \in Byte
    BY DEF Steps, Byte
<1> QED
    BY <1>1, <1>2 DEF InitPacket, AnyPacket

\* What the server makes of an Init packet.
LEMMA ReadInitIsPacket ==
    ASSUME NEW four \in [1 .. 4 -> Byte], NEW next \in Byte
    PROVE  [id |-> "Init", name |-> NoName, version |-> GameVersion, locale |-> Read(four), next |-> next] \in AnyPacket
<1>1. GameVersion \in [1 .. 4 -> Byte]
    BY PacketsAssumption
<1>2. NoName \in [1 .. 8 -> Byte]
    BY DEF NoName, Byte
<1>3. Read(four) \in Locales
    BY ReadIsNormal DEF Normal
<1> QED
    BY <1>1, <1>2, <1>3 DEF AnyPacket

LEMMA ServerInfoIsPacket ==
    ASSUME NEW text \in Text
    PROVE  /\ ServerInfo(text) \in AnyPacket
           /\ [id |-> "ServerInfo", name |-> NoName, version |-> GameVersion, json |-> text] \in AnyPacket
<1>1. GameName \in [1 .. 8 -> Byte] /\ GameVersion \in [1 .. 4 -> Byte]
    BY PacketsAssumption
<1>2. NoName \in [1 .. 8 -> Byte]
    BY DEF NoName, Byte
<1>3. text \in Seq(Byte)
    BY DEF Text
<1> QED
    BY <1>1, <1>2, <1>3 DEF ServerInfo, AnyPacket

LEMMA KickIsPacket ==
    ASSUME NEW type \in Byte, NEW text \in Seq(Byte)
    PROVE  Kick(type, text) \in AnyPacket
BY DEF Kick, AnyPacket

LEMMA OthersArePackets == Nothing \in AnyPacket /\ Thrown \in AnyPacket /\ Disconnect \in AnyPacket
BY DEF Nothing, Thrown, Disconnect, AnyPacket

\* A Kick without a body is read from the body before it, whatever that was.
LEMMA ReadKickIsPacket ==
    ASSUME NEW body \in Seq(Byte)
    PROVE  ReadKick(body) \in AnyPacket
<1>1. CASE body = << >>
    <2>1. << >> \in Seq(Byte) /\ Raw \in Byte
        BY DEF Raw, Byte
    <2> QED
        BY <1>1, <2>1, KickIsPacket DEF ReadKick
<1>2. CASE body # << >> /\ HasString(body, 2)
    <2> DEFINE n == Uint16(body, 2)
    <2>1. Len(body) \in Nat /\ 2 + 2 - 1 <= Len(body)
        BY <1>2, LenProperties DEF HasString, Has
    <2>2. body[1] \in Byte /\ body[2] \in Byte /\ body[3] \in Byte
        BY <2>1, ElementOfSeq
    <2>3. n \in Nat
        <3> HIDE DEF n
        <3>1. \A b \in Byte : b \in Nat
            BY DEF Byte
        <3>2. body[2] \in Nat /\ body[3] \in Nat
            BY <2>2, <3>1, Zenon
        <3>3. n = body[2] + 256 * body[2 + 1]
            BY DEF Uint16, n
        <3>4. 2 + 1 = 3
            OBVIOUS
        <3>5. n = body[2] + 256 * body[3]
            BY <3>3, <3>4
        <3> QED
            BY <3>2, <3>5
    <2>4. 4 + n - 1 <= Len(body)
        BY <1>2 DEF HasString, Has
    <2> HIDE DEF n
    <2>5. Bytes(body, 4, n) \in Seq(Byte)
        BY <2>3, <2>4, Part
    <2>6. String(body, 2) \in Seq(Byte)
        BY <2>5 DEF String, n
    <2>7. ReadKick(body) = Kick(body[1], String(body, 2))
        BY <1>2 DEF ReadKick
    <2> QED
        BY <2>2, <2>6, <2>7, KickIsPacket
<1>3. CASE body # << >> /\ ~HasString(body, 2)
    BY <1>3, OthersArePackets DEF ReadKick
<1> QED
    BY <1>1, <1>2, <1>3

------------------------------------------------------------------------------
(* The inductive invariant. *)

\* The body of the Init packet p: a client of this library writes its locale, another
\* implementation any four bytes, which stand for the locale they are read as.
InitBody(p, body) ==
    \E four \in [1 .. 4 -> Byte], locale \in Locales, next \in Steps :
        /\ p = InitPacket(locale, next)
        /\ body = GameName \o GameVersion \o four \o <<next>>
        /\ locale = Read(four) \/ four = Written(locale)

ClientSends(p, w) ==
    \/ w.id = "Disconnect" /\ w.body = << >> /\ p = Disconnect
    \/ w.id = "Init" /\ InitBody(p, w.body)

ServerSends(p, w) ==
    \/ \E text \in Text : p = ServerInfo(text) /\ w.id = "ServerInfo" /\ w.body = WriteServerInfo(p)
    \/ \E type \in Types, text \in Text : p = Kick(type, text) /\ w.id = "Kick" /\ w.body = WriteKick(p)

TextRead(p, q) ==
    /\ p.id = "ServerInfo" => q.id = "ServerInfo" /\ q.json = p.json
    /\ (p.id = "Kick" /\ p.message # << >>) => q = p

ClientInv ==
    /\ wire["client"] # Nothing => ClientSends(sent["client"], wire["client"])
    /\ (wire["client"] = Nothing /\ sent["client"].id = "Init") =>
           \E body : InitBody(sent["client"], body) /\ received["server"] = ReadInit(body)

ServerInv ==
    /\ wire["server"] # Nothing => ServerSends(sent["server"], wire["server"])
    /\ wire["server"] = Nothing => TextRead(sent["server"], received["client"])

Header == [id : {"Init", "Disconnect", "ServerInfo", "Kick"}, body : Seq(Byte)]

\* Init packets and their bodies, whoever has written them.
LEMMA InitBodyIsRead ==
    ASSUME NEW p, NEW body, InitBody(p, body)
    PROVE  /\ p \in AnyPacket /\ p.id = "Init" /\ p.version = GameVersion
           /\ body \in Seq(Byte) /\ Len(body) = InitSize
           /\ ReadInit(body) \in AnyPacket /\ ReadInit(body).id = "Init"
           /\ ReadInit(body).next = p.next /\ ReadInit(body).version = p.version
           /\ \E four \in [1 .. 4 -> Byte] :
                  /\ ReadInit(body).locale = Read(four)
                  /\ p.locale \in Locales
                  /\ p.locale = Read(four) \/ four = Written(p.locale)
<1>1. PICK four \in [1 .. 4 -> Byte], locale \in Locales, next \in Steps :
          /\ p = InitPacket(locale, next)
          /\ body = GameName \o GameVersion \o four \o <<next>>
          /\ locale = Read(four) \/ four = Written(locale)
    BY DEF InitBody
<1>2. next \in Byte
    BY DEF Steps, Byte
<1> DEFINE q == [id |-> "Init", name |-> NoName, version |-> GameVersion, locale |-> Read(four), next |-> next]
<1>3. body \in Seq(Byte) /\ Len(body) = InitSize /\ ReadInit(body) = q
    BY <1>1, <1>2, InitIsRead
<1>4. q \in AnyPacket
    BY <1>2, ReadInitIsPacket
<1>5. q.id = "Init" /\ q.version = GameVersion /\ q.locale = Read(four) /\ q.next = next
    OBVIOUS
<1>6. p \in AnyPacket
    BY <1>1, InitIsPacket
<1>7. p.id = "Init" /\ p.version = GameVersion /\ p.locale = locale /\ p.next = next
    BY <1>1 DEF InitPacket
<1> HIDE DEF q
<1> QED
    BY <1>1, <1>3, <1>4, <1>5, <1>6, <1>7


\* A step of a client or its peer that puts a packet on its way.
Sends(e, p, w) ==
    /\ wire[e] = Nothing
    /\ count' = count + 1 /\ count < MaxPackets
    /\ sent' = [sent EXCEPT ![e] = p]
    /\ wire' = [wire EXCEPT ![e] = w]
    /\ UNCHANGED <<name, m_WipInMessage, received, json, valueStart, value>>

LEMMA ClientSending ==
    ASSUME TypeOK, SendInit \/ SendPlainInit \/ SendDisconnect
    PROVE  \E p \in AnyPacket, w \in Header : Sends("client", p, w) /\ ClientSends(p, w)
<1>1. CASE SendInit
    <2>1. PICK next \in Steps : Send("client", InitPacket(Current(name), next))
        BY <1>1 DEF SendInit
    <2> DEFINE locale == Current(name)
               p == InitPacket(locale, next)
               body == GameName \o GameVersion \o Written(locale) \o <<next>>
               w == [id |-> "Init", body |-> body]
    <2>2. locale \in Locales
        BY CurrentIsLocale DEF TypeOK
    <2>3. Written(locale) \in [1 .. 4 -> Byte]
        BY <2>2, WrittenHasFour
    <2>4. Body(p) = body /\ p.id = "Init"
        BY DEF Body, WriteInit, InitPacket
    <2> HIDE DEF locale
    <2>5. InitBody(p, body)
        BY <2>2, <2>3 DEF InitBody
    <2> HIDE DEF p, body
    <2>6. p \in AnyPacket /\ body \in Seq(Byte)
        BY <2>5, InitBodyIsRead
    <2>7. w \in Header /\ w.id = "Init" /\ w.body = body
        BY <2>6 DEF Header
    <2>8. Send("client", p) /\ wire["client"] = Nothing /\ count < MaxPackets
        BY <1>1, <2>1 DEF SendInit, CanSend, p, locale
    <2>9. Sends("client", p, w)
        BY <2>4, <2>8 DEF Sends, Send, SendBody, readVars, jsonVars
    <2> HIDE DEF w
    <2> QED
        BY <2>5, <2>6, <2>7, <2>9 DEF ClientSends
<1>2. CASE SendPlainInit
    <2>1. PICK four \in Plain, next \in Steps :
              SendBody("client", InitPacket(Read(four), next), GameName \o GameVersion \o four \o <<next>>)
        BY <1>2 DEF SendPlainInit
    <2> DEFINE locale == Read(four)
               p == InitPacket(locale, next)
               body == GameName \o GameVersion \o four \o <<next>>
               w == [id |-> "Init", body |-> body]
    <2>2. four \in [1 .. 4 -> Byte]
        BY PacketsAssumption
    <2>3. locale \in Locales
        BY <2>2, ReadIsNormal DEF Normal
    <2>4. p.id = "Init"
        BY DEF InitPacket
    <2>5. InitBody(p, body)
        BY <2>2, <2>3 DEF InitBody
    <2>6. SendBody("client", p, body) /\ wire["client"] = Nothing /\ count < MaxPackets
        BY <1>2, <2>1 DEF SendPlainInit, CanSend
    <2> HIDE DEF p, body
    <2>7. p \in AnyPacket /\ body \in Seq(Byte)
        BY <2>5, InitBodyIsRead
    <2>8. w \in Header /\ w.id = "Init" /\ w.body = body
        BY <2>7 DEF Header
    <2>9. Sends("client", p, w)
        BY <2>4, <2>6 DEF Sends, SendBody, readVars, jsonVars
    <2> HIDE DEF w
    <2> QED
        BY <2>5, <2>7, <2>8, <2>9 DEF ClientSends
<1>3. CASE SendDisconnect
    <2> DEFINE w == [id |-> "Disconnect", body |-> << >>]
    <2>1. w \in Header /\ w.id = "Disconnect" /\ w.body = << >>
        BY DEF Header
    <2>2. Sends("client", Disconnect, w)
        BY <1>3 DEF SendDisconnect, CanSend, Sends, Send, SendBody, Body, Disconnect, readVars, jsonVars
    <2>3. Disconnect \in AnyPacket
        BY OthersArePackets
    <2> HIDE DEF w
    <2> QED
        BY <2>1, <2>2, <2>3 DEF ClientSends
<1> QED
    BY <1>1, <1>2, <1>3

LEMMA WriteKickIsBytes ==
    ASSUME NEW type \in Types, NEW text \in Text
    PROVE  WriteKick(Kick(type, text)) \in Seq(Byte)
<1>1. CASE text = << >>
    BY <1>1 DEF WriteKick, Kick
<1>2. CASE text # << >>
    BY <1>2, KickIsRead
<1> QED
    BY <1>1, <1>2

LEMMA ServerSending ==
    ASSUME SendServerInfo \/ SendKick
    PROVE  \E p \in AnyPacket, w \in Header : Sends("server", p, w) /\ ServerSends(p, w)
<1>1. CASE SendServerInfo
    <2>1. PICK text \in Jsons : Send("server", ServerInfo(text))
        BY <1>1 DEF SendServerInfo
    <2> DEFINE p == ServerInfo(text)
               body == WriteServerInfo(p)
               w == [id |-> "ServerInfo", body |-> body]
    <2>2. text \in Text
        BY AssumedTexts
    <2>3. body \in Seq(Byte)
        BY <2>2, ServerInfoIsRead
    <2>4. p \in AnyPacket
        BY <2>2, ServerInfoIsPacket
    <2>5. p.id = "ServerInfo" /\ Body(p) = body
        BY DEF ServerInfo, Body
    <2>6. Send("server", p) /\ wire["server"] = Nothing /\ count < MaxPackets
        BY <1>1, <2>1 DEF SendServerInfo, CanSend
    <2> HIDE DEF body
    <2>7. w \in Header /\ w.id = "ServerInfo" /\ w.body = body
        BY <2>3 DEF Header
    <2>8. Sends("server", p, w)
        <3> HIDE DEF p
        <3> QED
            BY <2>5, <2>6 DEF Sends, Send, SendBody, readVars, jsonVars
    <2> HIDE DEF w
    <2>9. ServerSends(p, w)
        BY <2>2, <2>7 DEF ServerSends, body
    <2> QED
        BY <2>4, <2>7, <2>8, <2>9
<1>2. CASE SendKick
    <2>1. PICK type \in Types, text \in Messages : Send("server", Kick(type, text))
        BY <1>2 DEF SendKick
    <2> DEFINE p == Kick(type, text)
               body == WriteKick(p)
               w == [id |-> "Kick", body |-> body]
    <2>2. text \in Text /\ text \in Seq(Byte) /\ type \in Byte
        BY AssumedTexts DEF Text, Types, Raw, Byte
    <2>3. body \in Seq(Byte)
        BY <2>2, WriteKickIsBytes
    <2>4. p \in AnyPacket
        BY <2>2, KickIsPacket
    <2>5. p.id = "Kick" /\ Body(p) = body
        BY DEF Kick, Body
    <2>6. Send("server", p) /\ wire["server"] = Nothing /\ count < MaxPackets
        BY <1>2, <2>1 DEF SendKick, CanSend
    <2> HIDE DEF body
    <2>7. w \in Header /\ w.id = "Kick" /\ w.body = body
        BY <2>3 DEF Header
    <2>8. Sends("server", p, w)
        <3> HIDE DEF p
        <3> QED
            BY <2>5, <2>6 DEF Sends, Send, SendBody, readVars, jsonVars
    <2> HIDE DEF w
    <2>9. ServerSends(p, w)
        BY <2>2, <2>7 DEF ServerSends, body
    <2> QED
        BY <2>4, <2>7, <2>8, <2>9
<1> QED
    BY <1>1, <1>2


\* A step of an end that takes the packet of its peer off its way.
Takes(e, r, b) ==
    /\ wire' = [wire EXCEPT ![Peer(e)] = Nothing]
    /\ m_WipInMessage' = [m_WipInMessage EXCEPT ![e] = b]
    /\ received' = [received EXCEPT ![e] = r]
    /\ UNCHANGED <<name, sent, count, json, valueStart, value>>

LEMMA ServerTakes ==
    ASSUME TypeOK, ClientInv, Receive("server")
    PROVE  \E r \in AnyPacket, b \in Seq(Byte) :
               /\ Takes("server", r, b) /\ r # Thrown
               /\ sent["client"].id = "Init" =>
                      \E body : InitBody(sent["client"], body) /\ r = ReadInit(body)
<1> DEFINE w == wire["client"]
           b == IF w.body = << >> THEN m_WipInMessage["server"] ELSE w.body
           r == IF w.id = "Init" /\ Len(w.body) # InitSize THEN Thrown ELSE Packet(w.id, b)
<1>1. Peer("server") = "client"
    BY DEF Peer
<1>2. Takes("server", r, b) /\ w # Nothing
    BY <1>1 DEF Receive, Takes, jsonVars
<1>3. ClientSends(sent["client"], w)
    BY <1>2 DEF ClientInv
<1>4. m_WipInMessage["server"] \in Seq(Byte) /\ << >> \in Seq(Byte)
    BY DEF TypeOK, Ends
<1> HIDE DEF w
<1>5. CASE w.id = "Disconnect" /\ w.body = << >> /\ sent["client"] = Disconnect
    <2>1. b \in Seq(Byte)
        BY <1>4, <1>5
    <2>2. r = Disconnect
        BY <1>5 DEF Packet
    <2>3. r \in AnyPacket /\ r # Thrown
        BY <2>2, OthersArePackets DEF Disconnect, Thrown
    <2>4. sent["client"].id # "Init"
        BY <1>5 DEF Disconnect
    <2> HIDE DEF b, r
    <2> QED
        BY <1>2, <2>1, <2>3, <2>4
<1>6. CASE w.id = "Init" /\ InitBody(sent["client"], w.body)
    <2>1. w.body \in Seq(Byte) /\ Len(w.body) = InitSize /\ ReadInit(w.body) \in AnyPacket
        BY <1>6, InitBodyIsRead
    <2>2. w.body # << >>
        <3>1. Len(w.body) = 17
            BY <2>1 DEF InitSize
        <3>2. Len(<< >>) = 0
            OBVIOUS
        <3>3. 17 # 0
            OBVIOUS
        <3> QED
            BY <3>1, <3>2, <3>3, Zenon
    <2>3. b = w.body
        BY <2>2
    <2> HIDE DEF b
    <2>4. r = ReadInit(w.body)
        BY <1>6, <2>1, <2>3 DEF Packet
    <2>5. ReadInit(w.body) # Thrown
        BY <1>6, InitBodyIsRead DEF Thrown
    <2> HIDE DEF r
    <2> QED
        BY <1>2, <1>6, <2>1, <2>3, <2>4, <2>5
<1> QED
    BY <1>3, <1>5, <1>6 DEF ClientSends

LEMMA ClientTakes ==
    ASSUME TypeOK, ServerInv, Receive("client")
    PROVE  \E r \in AnyPacket, b \in Seq(Byte) : Takes("client", r, b) /\ TextRead(sent["server"], r)
<1> DEFINE w == wire["server"]
           p == sent["server"]
           b == IF w.body = << >> THEN m_WipInMessage["client"] ELSE w.body
           r == Packet(w.id, b)
<1>1. Peer("client") = "server"
    BY DEF Peer
<1>2. w # Nothing
    BY <1>1 DEF Receive
<1>3. ServerSends(p, w)
    BY <1>2 DEF ServerInv
<1>4. w.id \in {"ServerInfo", "Kick"}
    BY <1>3 DEF ServerSends
<1>5. Takes("client", r, b)
    BY <1>1, <1>4 DEF Receive, Takes, jsonVars
<1>6. m_WipInMessage["client"] \in Seq(Byte)
    BY DEF TypeOK, Ends
<1> HIDE DEF w, p
<1>7. CASE \E text \in Text : p = ServerInfo(text) /\ w.id = "ServerInfo" /\ w.body = WriteServerInfo(p)
    <2>1. PICK text \in Text : p = ServerInfo(text) /\ w.id = "ServerInfo" /\ w.body = WriteServerInfo(p)
        BY <1>7
    <2> DEFINE q == [id |-> "ServerInfo", name |-> NoName, version |-> GameVersion, json |-> text]
    <2>2. w.body \in Seq(Byte) /\ w.body # << >> /\ ReadServerInfo(w.body) = q
        BY <2>1, ServerInfoIsRead
    <2>3. q \in AnyPacket
        BY ServerInfoIsPacket
    <2>4. b = w.body
        BY <2>2
    <2>5. q.id = "ServerInfo" /\ q.json = text /\ p.id = "ServerInfo" /\ p.json = text
        BY <2>1 DEF ServerInfo
    <2> HIDE DEF b, q
    <2>6. r = q
        BY <2>1, <2>2, <2>4 DEF Packet
    <2> HIDE DEF r
    <2>7. TextRead(p, r)
        BY <2>5, <2>6 DEF TextRead
    <2> QED
        BY <1>5, <2>2, <2>3, <2>4, <2>6, <2>7 DEF p
<1>8. CASE \E type \in Types, text \in Text : p = Kick(type, text) /\ w.id = "Kick" /\ w.body = WriteKick(p)
    <2>1. PICK type \in Types, text \in Text : p = Kick(type, text) /\ w.id = "Kick" /\ w.body = WriteKick(p)
        BY <1>8
    <2>2. w.body \in Seq(Byte)
        BY <2>1, WriteKickIsBytes
    <2>3. b \in Seq(Byte)
        BY <1>6, <2>2
    <2>4. p.id = "Kick" /\ p.message = text
        BY <2>1 DEF Kick
    <2>5. r = ReadKick(b)
        <3> HIDE DEF b
        <3> QED
            BY <2>1 DEF Packet
    <2>6. r \in AnyPacket
        <3> HIDE DEF b, r
        <3> QED
            BY <2>3, <2>5, ReadKickIsPacket
    <2>7. ASSUME text # << >> PROVE r = p
        <3>1. w.body # << >> /\ ReadKick(w.body) = Kick(type, text)
            BY <2>1, <2>7, KickIsRead
        <3>2. b = w.body
            BY <3>1
        <3> HIDE DEF b, r
        <3> QED
            BY <2>1, <2>5, <3>1, <3>2
    <2> HIDE DEF b, r
    <2>8. TextRead(p, r)
        BY <2>4, <2>7 DEF TextRead
    <2> QED
        BY <1>5, <2>3, <2>6, <2>8 DEF p
<1> QED
    BY <1>3, <1>7, <1>8 DEF ServerSends

------------------------------------------------------------------------------
\* The search stays in the text it searches.
LEMMA SearchStays ==
    ASSUME TypeOK, FindKey \/ FindValue
    PROVE  valueStart' \in -1 .. Len(json) + 1 /\ value' \in Seq(Byte)
<1>1. /\ Len(json) \in Nat /\ DOMAIN json = 1 .. Len(json) /\ << >> \in Seq(Byte)
      /\ valueStart \in -1 .. Len(json) + 1 /\ value \in Seq(Byte)
    BY LenProperties DEF TypeOK
<1>2. CASE FindKey
    <2>1. CASE Return(<< >>)
        BY <1>1, <2>1 DEF Return
    <2>2. CASE /\ \E at \in DOMAIN json : OccursFirst(at)
               /\ Index - 1 + Len(jsonKey) + 3 < Len(json)
               /\ valueStart' = Index + Len(jsonKey) + 1 /\ UNCHANGED value
        <3>1. Index \in DOMAIN json
            BY <2>2 DEF Index
        <3>2. Len(jsonKey) \in Nat
            <4>1. Key \in Seq(Byte) /\ <<Quote>> \in Seq(Byte)
                BY PacketsAssumption DEF Quote, Byte
            <4>2. <<Quote>> \o Key \in Seq(Byte)
                BY <4>1, ConcatBytes
            <4>3. jsonKey \in Seq(Byte)
                BY <4>1, <4>2, ConcatBytes DEF jsonKey
            <4> QED
                BY <4>3, LenProperties
        <3> HIDE DEF Index, jsonKey
        <3> QED
            BY <1>1, <2>2, <3>1, <3>2
    <2> QED
        BY <1>2, <2>1, <2>2 DEF FindKey
<1>3. CASE FindValue
    <2>1. CASE valueStart <= Len(json) /\ valueStart' = valueStart + 1 /\ UNCHANGED value
        BY <1>1, <2>1
    <2>2. CASE valueStart' = 0 /\ value' = << >>
        BY <1>1, <2>2
    <2>3. valueStart \in Int
        BY <1>1
    <2> QED
        BY <1>3, <2>1, <2>2 DEF FindValue, OnQuote, Return
<1> QED
    BY <1>2, <1>3


\* What TypeOK says of the packets, and of the search.
PacketTypes ==
    /\ name \in Names
    /\ sent \in [Ends -> AnyPacket] /\ received \in [Ends -> AnyPacket]
    /\ count \in 0 .. MaxPackets
    /\ wire \in [Ends -> {Nothing} \cup Header]
    /\ m_WipInMessage \in [Ends -> Seq(Byte)]

SearchTypes == json \in Seq(Byte) /\ valueStart \in -1 .. Len(json) + 1 /\ value \in Seq(Byte)

LEMMA TypeParts == TypeOK <=> PacketTypes /\ SearchTypes
BY DEF TypeOK, PacketTypes, SearchTypes, Header

LEMMA SendKeepsTypes ==
    ASSUME TypeOK, NEW e \in Ends, NEW p \in AnyPacket, NEW w \in Header, Sends(e, p, w)
    PROVE  TypeOK'
<1>1. PacketTypes /\ SearchTypes
    BY TypeParts
<1>2. count' \in 0 .. MaxPackets
    BY <1>1, PacketsAssumption DEF Sends, PacketTypes
<1>3. sent' \in [Ends -> AnyPacket] /\ wire' \in [Ends -> {Nothing} \cup Header]
    BY <1>1 DEF Sends, PacketTypes
<1>4. PacketTypes'
    BY <1>1, <1>2, <1>3 DEF Sends, PacketTypes
<1>5. SearchTypes'
    BY <1>1 DEF Sends, SearchTypes
<1> QED
    BY <1>4, <1>5 DEF TypeOK, PacketTypes, SearchTypes, Header

LEMMA TakeKeepsTypes ==
    ASSUME TypeOK, NEW e \in Ends, NEW r \in AnyPacket, NEW b \in Seq(Byte), Takes(e, r, b)
    PROVE  TypeOK'
<1>1. PacketTypes /\ SearchTypes
    BY TypeParts
<1>2. received' \in [Ends -> AnyPacket] /\ m_WipInMessage' \in [Ends -> Seq(Byte)]
    BY <1>1 DEF Takes, PacketTypes
<1>3. wire' \in [Ends -> {Nothing} \cup Header]
    BY <1>1 DEF Takes, PacketTypes
<1>4. PacketTypes'
    BY <1>1, <1>2, <1>3 DEF Takes, PacketTypes
<1>5. SearchTypes'
    BY <1>1 DEF Takes, SearchTypes
<1> QED
    BY <1>4, <1>5 DEF TypeOK, PacketTypes, SearchTypes, Header

\* The search takes place on what has been received already.
LEMMA SearchKeepsTypes ==
    ASSUME TypeOK, Ask \/ FindKey \/ FindValue
    PROVE  TypeOK'
<1>1. PacketTypes /\ SearchTypes
    BY TypeParts
<1>2. UNCHANGED <<name, sent, received, count, wire, m_WipInMessage>>
    BY DEF Ask, FindKey, FindValue, sendVars, readVars
<1>3. PacketTypes'
    BY <1>1, <1>2 DEF PacketTypes
<1>4. SearchTypes'
    <2>1. CASE Ask
        <3> DEFINE q == received["client"]
        <3>1. q \in AnyPacket /\ q.id = "ServerInfo"
            BY <1>1, <2>1 DEF PacketTypes, Ends, Ask
        <3> HIDE DEF q
        <3>2. q.json \in Seq(Byte)
            BY <3>1 DEF AnyPacket
        <3>3. json' \in Seq(Byte) /\ value' = << >> /\ valueStart' = -1
            BY <2>1, <3>2 DEF Ask, q
        <3>4. Len(json') \in Nat
            BY <3>3, LenProperties
        <3> QED
            BY <3>3, <3>4 DEF SearchTypes
    <2>2. CASE FindKey \/ FindValue
        <3>1. json' = json
            BY <2>2 DEF FindKey, FindValue
        <3> QED
            BY <1>1, <2>2, <3>1, SearchStays DEF SearchTypes
    <2> QED
        BY <2>1, <2>2
<1> QED
    BY <1>3, <1>4 DEF TypeOK, PacketTypes, SearchTypes, Header

------------------------------------------------------------------------------
LEMMA Started == Init => TypeOK /\ InitHasItsSize /\ ClientInv /\ ServerInv
<1> SUFFICES ASSUME Init PROVE TypeOK /\ InitHasItsSize /\ ClientInv /\ ServerInv
    OBVIOUS
<1>1. Nothing \in AnyPacket /\ << >> \in Seq(Byte) /\ MaxPackets \in Nat
    BY OthersArePackets, PacketsAssumption
<1>2. PacketTypes
    BY <1>1 DEF Init, PacketTypes
<1>3. SearchTypes
    BY <1>1 DEF Init, SearchTypes
<1>4. Nothing.id = "none"
    BY DEF Nothing
<1>5. InitHasItsSize /\ ClientInv /\ ServerInv
    BY <1>4 DEF Init, InitHasItsSize, Thrown, ClientInv, ServerInv, TextRead, Ends
<1> QED
    BY <1>2, <1>3, <1>5, TypeParts

\* A header on its way is not Nothing: it has another ID.
LEMMA HeaderIsSomething == ASSUME NEW w \in Header PROVE w # Nothing
BY DEF Header, Nothing

LEMMA Inductive == TypeOK /\ InitHasItsSize /\ ClientInv /\ ServerInv /\ [Next]_vars => (TypeOK /\ InitHasItsSize /\ ClientInv /\ ServerInv)'
<1> SUFFICES ASSUME TypeOK, InitHasItsSize, ClientInv, ServerInv, [Next]_vars PROVE (TypeOK /\ InitHasItsSize /\ ClientInv /\ ServerInv)'
    OBVIOUS
<1>0. /\ "client" \in Ends /\ "server" \in Ends /\ Peer("client") = "server" /\ Peer("server") = "client"
      /\ DOMAIN sent = Ends /\ DOMAIN wire = Ends /\ DOMAIN received = Ends
    BY DEF Ends, Peer, TypeOK
<1>1. CASE SendInit \/ SendPlainInit \/ SendDisconnect
    <2>1. PICK p \in AnyPacket, w \in Header : Sends("client", p, w) /\ ClientSends(p, w)
        BY <1>1, ClientSending
    <2>2. TypeOK'
        BY <1>0, <2>1, SendKeepsTypes
    <2>3. sent'["client"] = p /\ wire'["client"] = w /\ wire'["client"] # Nothing
        BY <1>0, <2>1, HeaderIsSomething DEF Sends
    <2>4. sent'["server"] = sent["server"] /\ wire'["server"] = wire["server"] /\ received' = received
        BY <1>0, <2>1 DEF Sends
    <2>5. ClientInv'
        BY <2>1, <2>3 DEF ClientInv
    <2>6. ServerInv'
        BY <2>4 DEF ServerInv
    <2>7. InitHasItsSize'
        BY <2>4 DEF InitHasItsSize
    <2> QED
        BY <2>2, <2>5, <2>6, <2>7
<1>2. CASE SendServerInfo \/ SendKick
    <2>1. PICK p \in AnyPacket, w \in Header : Sends("server", p, w) /\ ServerSends(p, w)
        BY <1>2, ServerSending
    <2>2. TypeOK'
        BY <1>0, <2>1, SendKeepsTypes
    <2>3. sent'["server"] = p /\ wire'["server"] = w /\ wire'["server"] # Nothing
        BY <1>0, <2>1, HeaderIsSomething DEF Sends
    <2>4. sent'["client"] = sent["client"] /\ wire'["client"] = wire["client"] /\ received' = received
        BY <1>0, <2>1 DEF Sends
    <2>5. ServerInv'
        BY <2>1, <2>3 DEF ServerInv
    <2>6. ClientInv'
        BY <2>4 DEF ClientInv
    <2>7. InitHasItsSize'
        BY <2>4 DEF InitHasItsSize
    <2> QED
        BY <2>2, <2>5, <2>6, <2>7
<1>3. CASE Receive("server")
    <2>1. PICK r \in AnyPacket, b \in Seq(Byte) :
              /\ Takes("server", r, b) /\ r # Thrown
              /\ sent["client"].id = "Init" => \E body : InitBody(sent["client"], body) /\ r = ReadInit(body)
        BY <1>3, ServerTakes
    <2>2. TypeOK'
        BY <1>0, <2>1, TakeKeepsTypes
    <2>3. /\ sent' = sent /\ wire'["client"] = Nothing /\ wire'["server"] = wire["server"]
          /\ received'["server"] = r /\ received'["client"] = received["client"]
        BY <1>0, <2>1 DEF Takes
    <2>4. ClientInv'
        BY <2>1, <2>3 DEF ClientInv
    <2>5. ServerInv'
        BY <2>3 DEF ServerInv
    <2>6. InitHasItsSize'
        BY <2>1, <2>3 DEF InitHasItsSize
    <2> QED
        BY <2>2, <2>4, <2>5, <2>6
<1>4. CASE Receive("client")
    <2>1. PICK r \in AnyPacket, b \in Seq(Byte) : Takes("client", r, b) /\ TextRead(sent["server"], r)
        BY <1>4, ClientTakes
    <2>2. TypeOK'
        BY <1>0, <2>1, TakeKeepsTypes
    <2>3. /\ sent' = sent /\ wire'["server"] = Nothing /\ wire'["client"] = wire["client"]
          /\ received'["client"] = r /\ received'["server"] = received["server"]
        BY <1>0, <2>1 DEF Takes
    <2>4. ClientInv'
        BY <2>3 DEF ClientInv
    <2>5. ServerInv'
        BY <2>1, <2>3 DEF ServerInv
    <2>6. InitHasItsSize'
        BY <2>3 DEF InitHasItsSize
    <2> QED
        BY <2>2, <2>4, <2>5, <2>6
<1>5. CASE Ask \/ FindKey \/ FindValue
    <2>1. TypeOK'
        BY <1>5, SearchKeepsTypes
    <2>2. UNCHANGED <<sent, wire, received>>
        BY <1>5 DEF Ask, FindKey, FindValue, sendVars, readVars
    <2> QED
        BY <2>1, <2>2 DEF InitHasItsSize, ClientInv, ServerInv
<1>6. CASE UNCHANGED vars
    BY <1>6 DEF vars, sendVars, readVars, jsonVars, TypeOK, InitHasItsSize, ClientInv, ServerInv
<1>7. CASE \E e \in Ends : Receive(e)
    BY <1>3, <1>4, <1>7 DEF Ends
<1> QED
    BY <1>1, <1>2, <1>5, <1>6, <1>7 DEF Next

LEMMA Invariance == Spec => [](TypeOK /\ InitHasItsSize /\ ClientInv /\ ServerInv)
BY Started, Inductive, PTL DEF Spec

\* Whatever locale a client's system has, and whatever locale an implementation sends as
\* it is, the server takes the Init packet without an exception.
THEOREM InitIsTaken == Spec => []InitHasItsSize
BY Invariance, PTL

\* Every packet that has been made is one of those the library knows, every body is
\* bytes, and the search for a field stays in the text.
THEOREM TypeCorrect == Spec => []TypeOK
BY Invariance, PTL

\* The next step and the version of an Init packet arrive, whatever bytes stand for the
\* locale before them.
THEOREM NextStepArrives == Spec => []NextArrives
<1>1. ClientInv => NextArrives
    BY InitBodyIsRead DEF ClientInv, NextArrives, Arrived, Peer
<1> QED
    BY <1>1, Invariance, PTL

\* Whatever locale arrives can be printed, is parsed and read as itself, and a valid one
\* is printed as the client prints it.
THEOREM LocalesArrive == Spec => []LocaleArrives
<1>1. ASSUME ClientInv PROVE LocaleArrives
    <2> DEFINE p == sent["client"]
               q == received["server"]
    <2> SUFFICES ASSUME wire["client"] = Nothing, p.id = "Init"
                 PROVE  /\ IsValid(q.locale)
                        /\ Parsed(Printed(q.locale)) = q.locale
                        /\ Read(Written(q.locale)) = q.locale
                        /\ IsValid(p.locale) => Printed(q.locale) = Printed(p.locale)
        BY DEF LocaleArrives, Arrived, Peer
    <2>1. PICK body : InitBody(p, body) /\ q = ReadInit(body)
        BY <1>1 DEF ClientInv
    <2>2. PICK four \in [1 .. 4 -> Byte] :
              /\ ReadInit(body).locale = Read(four)
              /\ p.locale \in Locales
              /\ p.locale = Read(four) \/ four = Written(p.locale)
        BY <2>1, InitBodyIsRead
    <2>3. q.locale = Read(four)
        BY <2>1, <2>2
    <2> HIDE DEF p, q
    <2>4. IsValid(q.locale)
        BY <2>3, ReadIsNormal DEF Normal
    <2>5. Parsed(Printed(q.locale)) = q.locale /\ Read(Written(q.locale)) = q.locale
        BY <2>3, ParsedOfPrinted, ReadOfWritten
    <2>6. ASSUME IsValid(p.locale) PROVE Printed(q.locale) = Printed(p.locale)
        <3>1. CASE p.locale = Read(four)
            BY <2>3, <3>1
        <3>2. CASE four = Written(p.locale)
            BY <2>2, <2>3, <2>6, <3>2, PrintedAlike
        <3> QED
            BY <2>2, <3>1, <3>2
    <2> QED
        BY <2>4, <2>5, <2>6
<1> QED
    BY <1>1, Invariance, PTL

\* The texts of a ServerInfo and of a Kick arrive as they were sent, however long.
THEOREM TextsArriveUnchanged == Spec => []TextsArrive
<1>1. ServerInv => TextsArrive
    BY DEF ServerInv, TextRead, TextsArrive, Arrived, Peer
<1> QED
    BY <1>1, Invariance, PTL
==============================================================================
