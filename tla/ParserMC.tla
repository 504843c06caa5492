------------------------------ MODULE ParserMC ------------------------------
(* Lexemes of every kind and fault, and options at their limits.            *)
EXTENDS ParserPair

Lexeme(kind, val, gap, bytes, fault) ==
    [kind |-> kind, val |-> val, gap |-> gap, bytes |-> bytes, fault |-> fault]
Mark(kind, gap, byte) == Lexeme(kind, "none", gap, <<byte>>, "none")

Marks == {Mark("[", 0, "open"), Mark("{", 0, "open"), Mark("]", 0, "close"),
          Mark("}", 0, "close"), Mark(",", 0, "close"), Mark(":", 1, "colon"),
          Mark("junk", 1, "plain")}
Sounds == {Lexeme("string", "k", 0, <<"open", "plain", "escape", "plain">>, "none"),
           Lexeme("number", "1", 0, <<"digit", "digit">>, "inexact"),
           Lexeme("literal", "null", 1, <<"letter", "letter">>, "none")}
Faulty == {Lexeme("string", "bad", 0, <<"open">>, "encoding"),
           Lexeme("number", "-", 0, <<"digit">>, "incomplete"),
           Lexeme("number", "9", 0, <<"digit">>, "overflow")}
MCLexemes == Marks \cup Sounds \cup Faulty

Option(depth, nodes, bytes, keys, numbers) ==
    [maxDepth |-> depth, maxNodes |-> nodes, maxInputBytes |-> bytes,
     duplicateKeys |-> keys, numberPolicy |-> numbers]
MCConfigurations ==
    {Option(2, 3, 0, "RejectDuplicateKeys", "RejectUnrepresentableNumbers"),
     Option(2, 4, 0, "KeepFirstDuplicate", "AllowLossyNumbers"),
     Option(2, 4, 0, "KeepLastDuplicate", "RejectUnrepresentableNumbers"),
     Option(0, 2, 7, "RejectDuplicateKeys", "AllowLossyNumbers"),
     Option(9, 0, 8, "KeepFirstDuplicate", "RejectUnrepresentableNumbers")}
=============================================================================
