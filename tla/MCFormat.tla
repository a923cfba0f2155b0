------------------------------ MODULE MCFormat ------------------------------
(* The formats that TLC prints: one task any of them, another only numbers. *)
EXTENDS Format

CONSTANTS a, b

Pieces ==
    {Text(<<Letter, Letter>>), Str(<<Letter, Letter, Letter>>), Chr(Letter), Wide}
        \cup {Num(c, n) : c \in DOMAIN Base, n \in {0, 16, 23}}

MCFormats ==
    (a :> {<<p>> : p \in Pieces}
          \cup {<<p, q>> : p \in Pieces, q \in {Text(<<Letter, Letter>>), Str(<<Letter>>), Wide, Num("d", 23)}}
          \cup {<<Chr(Letter), Num("x", 16), p>> : p \in {Chr(Letter), Str(<<Letter>>), Num("o", 0)}})
    @@ (b :> {<<Num("u", 23)>>})
=============================================================================
