------------------------------ MODULE LocaleInfo ------------------------------
(****************************************************************************)
(* LocaleDoubleChar.hpp and LocaleInfo.hpp: a locale is two pairs of        *)
(* letters, of the language and of the country; a pair of zeros is an empty *)
(* one.  A char is a signed byte, a text a sequence of chars.  Operations   *)
(* that throw have a condition of their own, named for it.                  *)
(****************************************************************************)
EXTENDS Integers, Sequences

Char == -128 .. 127
Byte == 0 .. 255

LowerCase == 97 .. 122
UpperCase == 65 .. 90
Letter    == LowerCase \cup UpperCase
Separator == 45     \* '-'
Underscore == 95    \* '_'

ToChar(b) == IF b > 127 THEN b - 256 ELSE b

DoubleChar == Char \X Char
Empty      == <<0, 0>>
Locales    == [LanguageCode : DoubleChar, CountryCode : DoubleChar]
NoLocale   == [LanguageCode |-> Empty, CountryCode |-> Empty]

PairIsValid(pair) == pair = Empty \/ (pair[1] \in Letter /\ pair[2] \in Letter)

\* One comparison decides: a letter is changed if it is not below 'a', or not above 'Z'.
InCase(c, upperCase) ==
    IF upperCase
    THEN IF c >= 97 THEN c - 32 ELSE c
    ELSE IF c <= 90 THEN c + 32 ELSE c

ChangeCase(pair, upperCase) ==
    IF PairIsValid(pair) /\ pair # Empty
    THEN <<InCase(pair[1], upperCase), InCase(pair[2], upperCase)>>
    ELSE Empty

IsValid(locale) ==
    /\ PairIsValid(locale.LanguageCode) /\ PairIsValid(locale.CountryCode)
    /\ locale.LanguageCode = Empty => locale.CountryCode = Empty

\* operator<< to a stream throws unless IsValid(locale).
Printed(locale) ==
    IF locale.LanguageCode = Empty
    THEN << >>
    ELSE ChangeCase(locale.LanguageCode, FALSE)
         \o IF locale.CountryCode = Empty
            THEN << >>
            ELSE <<Separator>> \o ChangeCase(locale.CountryCode, TRUE)

\* A locale from a text whose third character may be one of separators.
FromText(text, separators) ==
    [LanguageCode |-> IF Len(text) >= 2 THEN <<text[1], text[2]>> ELSE Empty,
     CountryCode  |-> IF Len(text) >= 5 /\ text[3] \in separators THEN <<text[4], text[5]>> ELSE Empty]

\* LocaleInfo(const std::string&).
Parsed(text) == FromText(text, {Separator})

\* The system's locale, of which name is the name; <<67>> is "C".
Current(name) == IF name = <<67>> THEN NoLocale ELSE FromText(name, {Separator, Underscore})

\* Mutant: an empty country is not written.
Written_Short(locale) ==
    LET language == ChangeCase(locale.LanguageCode, FALSE)
        country  == ChangeCase(locale.CountryCode, TRUE)
    IN  IF language = Empty
        THEN Empty \o Empty
        ELSE IF country = Empty THEN language ELSE language \o country

\* The four bytes operator<< writes to a packet.
Written(locale) ==
    LET language == ChangeCase(locale.LanguageCode, FALSE)
        country  == ChangeCase(locale.CountryCode, TRUE)
    IN  IF language = Empty THEN Empty \o Empty ELSE language \o country

\* Mutant: an invalid country is kept.
CountryRead_Kept(pair) == IF PairIsValid(pair) THEN ChangeCase(pair, TRUE) ELSE pair

CountryRead(pair) == ChangeCase(pair, TRUE)

\* What operator>> makes of four bytes of a packet: with a bad language, nothing at all.
Read(bytes) ==
    LET language == <<ToChar(bytes[1]), ToChar(bytes[2])>>
        country  == <<ToChar(bytes[3]), ToChar(bytes[4])>>
    IN  IF PairIsValid(language) /\ language # Empty
        THEN [LanguageCode |-> ChangeCase(language, FALSE), CountryCode |-> CountryRead(country)]
        ELSE NoLocale
==============================================================================
