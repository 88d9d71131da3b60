------------------------------ MODULE MCProtocol ------------------------------
EXTENDS Protocol

MCAfter == {0, 1}

\* Distinct numbers, of one, two and four bytes, strings and lists of 0 to 2 elements
Seeds == {0, 300, 16909060}
MaxLen == 2
Sample(kind, n, len) ==
    CASE kind = U8 -> n % 256
      [] kind = U32 -> n
      [] kind = Flag -> n % 2 = 1
      [] kind = Str -> [i \in 1..len |-> (n + i) % 256]
      [] kind = Items -> [i \in 1..len |-> n + i]
SampleAny(kind, n, len) ==
    IF kind \in {Objects, Members}
    THEN [j \in 1..len |-> [f \in DOMAIN Element(kind).write |->
                               Sample(Element(kind).write[f], n + f + j, 1)]]
    ELSE Sample(kind, n, len)

MCValues(t) ==
    LET layout == Messages[t].write
        variable == {i \in DOMAIN layout : layout[i] \in {Str, Items, Objects, Members}}
    IN  {[i \in DOMAIN layout |-> SampleAny(layout[i], k + i, IF i \in variable THEN len[i] ELSE 0)] :
            k \in Seeds, len \in [variable -> 0..MaxLen]}
===============================================================================
