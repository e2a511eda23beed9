------------------------------- MODULE MCPackets -------------------------------
(* An instance of Packets for TLC; texts are written as the codes of their chars. *)
EXTENDS Packets

en == <<101, 110>>
US == <<85, 83>>
SomeNames ==
    {<< >>, <<67>>, <<101>>, en, en \o <<46, 85>>, en \o <<95>> \o US \o <<46>>, <<67, 83, 45, 99, 122>>,
     <<49, 110, 95>> \o US, en \o <<95, 85, 49>>, en \o <<95, 97, 122>>, <<64, 91, 95, 96, 123>>}
SomePlain ==
    {en \o <<117, 115>>, <<69, 78, 0, 0>>, en \o <<49, 50>>, <<0, 0>> \o US, <<195, 169>> \o US,
     <<65, 90, 97, 122>>, <<97, 122, 65, 90>>, <<64, 91, 96, 123>>, en \o <<85, 0>>}
Long(n) == [i \in 1 .. n |-> 97]
SomeMessages == {<< >>, <<98>>, Long(256)}
KeyK == <<107>>
QuotedK == <<34, 107, 34>>
SomeJsons ==
    {<< >>, Long(300), QuotedK \o <<58>>, <<123, 32, 32, 32>> \o QuotedK}
        \cup {<<123>> \o QuotedK \o rest : rest \in
                 {<<58, 32, 34, 118, 34, 125>>, <<58, 32, 34, 34, 125>>, <<32, 58, 34, 32, 34>>,
                  <<58, 34, 34, 34>>, <<58, 54, 44, 125, 32>>, <<58, 34, 92, 34>>}}
Name == <<65, 87, 69, 0, 0, 0, 0, 0>>
Version == <<1, 0, 0, 0>>
================================================================================
