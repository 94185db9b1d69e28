--------------------------- MODULE MCHttpReceive ---------------------------
(* The exchanges of the runs: a resource of three bytes, asked and sent in  *)
(* every way, and an older version of it of one negative byte.              *)
EXTENDS HttpReceive

Token(kind, n) == [is |-> kind, n |-> n]
AHead == <<Token("head", 0)>>
Data(bytes) == [i \in 1..Len(bytes) |-> Token("byte", bytes[i])]
Chunk(bytes) ==
  <<Token("size", Len(bytes))>> \o Data(bytes) \o <<Token("line", 0)>>
LastChunk == <<Token("size", 0)>>
EmptyLine == <<Token("line", 0)>>

Whole == <<1, 2, 3>>
Old == <<-1>>

Exchange(kind, page, have, code, framing, sent, keep) ==
  [kind |-> kind, page |-> page, have |-> have, code |-> code,
   framing |-> framing, length |-> IF framing = "length" THEN Len(sent) ELSE 0,
   keep |-> keep /\ framing # "close", body |-> Whole,
   wire |-> AHead \o
     (IF framing = "chunked"
        THEN (IF sent = <<>> THEN <<>>
              ELSE Chunk(SubSeq(sent, 1, 1)) \o
                   IF Len(sent) = 1 THEN <<>> ELSE Chunk(Tail(sent)))
             \o LastChunk \o EmptyLine
        ELSE Data(sent))]

Plain ==
  {Exchange("get", page, have, 200, framing, Whole, keep) :
     page \in BOOLEAN, have \in {<<>>, Old}, framing \in Framings,
     keep \in BOOLEAN}

Others ==
  {[Exchange("get", page, <<>>, 200, framing, <<>>, TRUE) EXCEPT
      !.body = <<>>] : page \in BOOLEAN, framing \in Framings}
  \cup {Exchange("get", TRUE, <<>>, 404, framing, <<9>>, TRUE) :
          framing \in Framings}
  \cup {Exchange("conditional", FALSE, Whole, 304, "length", <<>>, keep) :
          keep \in BOOLEAN}
  \cup {Exchange("conditional", page, Old, 200, framing, Whole, TRUE) :
          page \in BOOLEAN, framing \in Framings}
  \cup {[Exchange(kind, FALSE, <<>>, code, "length", Whole, keep)
           EXCEPT !.wire = AHead] :
          kind \in {"head"}, code \in {200, 404}, keep \in BOOLEAN}
  \cup {Exchange("test", FALSE, <<>>, code, framing, Whole, TRUE) :
          code \in {200, 404}, framing \in Framings}

Ranges ==
  {Exchange("range", FALSE, <<1>>, 206, framing, <<2, 3>>, keep) :
     framing \in {"length", "close"}, keep \in BOOLEAN}
  \cup {Exchange("range", FALSE, have, 200, framing, Whole, TRUE) :
          have \in {<<1>>, Old}, framing \in Framings}
  \cup {Exchange("range", FALSE, Old, 412, "length", <<9>>, TRUE)}
  \cup {Exchange("range", FALSE, have, 416, "length", <<9>>, TRUE) :
          have \in {Old, Whole}}

Interims ==
  {[e EXCEPT !.wire = <<Token("continue", 0)>> \o e.wire] :
     e \in {Exchange("get", FALSE, <<>>, 200, "length", Whole, TRUE)}}

(* Trailers after the last chunk, a line that is no size, a chunk that is   *)
(* longer than it says, and a body longer than its length.                  *)
Odd ==
  {[Exchange("get", page, <<>>, 200, "chunked", Whole, TRUE) EXCEPT
      !.wire = AHead \o Chunk(Whole) \o LastChunk \o <<Token("bad", 0)>>
                 \o EmptyLine] : page \in BOOLEAN}
  \cup {[Exchange("get", page, <<>>, 200, "chunked", Whole, TRUE) EXCEPT
           !.wire = AHead \o Chunk(<<1>>) \o <<Token("bad", 0)>>] : page \in BOOLEAN}
  \cup {[Exchange("get", page, <<>>, 200, "chunked", Whole, TRUE) EXCEPT
           !.wire = AHead \o <<Token("size", 2)>> \o Data(Whole) \o EmptyLine
                      \o LastChunk \o EmptyLine] : page \in BOOLEAN}
  \cup {[Exchange("get", page, <<>>, 200, "length", Whole, TRUE) EXCEPT
           !.wire = @ \o Data(<<4>>)] : page \in BOOLEAN}

(* The rest of a file in chunks, of fewer bytes than what is on disk or     *)
(* not, and a test by GET.                                                  *)
ChunkedRanges ==
  {Exchange("range", FALSE, <<1>>, 206, "chunked", <<2, 3>>, FALSE),
   Exchange("range", FALSE, <<1, 2>>, 206, "chunked", <<3>>, TRUE),
   [Exchange("range", FALSE, Whole, 206, "chunked", <<4>>, TRUE) EXCEPT
      !.body = @ \o <<4>>],
   [Exchange("range", FALSE, <<1, 2>>, 206, "chunked", <<3>>, TRUE) EXCEPT
      !.wire = AHead \o <<Token("size", 1)>> \o Data(<<3>>)
                 \o <<Token("bad", 0)>> \o LastChunk \o EmptyLine],
   [Exchange("range", FALSE, <<1, 2>>, 206, "chunked", <<3, 4>>, TRUE) EXCEPT
      !.body = @ \o <<4>>],
   [Exchange("range", FALSE, <<1>>, 206, "chunked", <<>>, TRUE) EXCEPT
      !.body = <<1, 2, 3>>, !.wire = AHead \o Chunk(<<2, 3>>) \o LastChunk
                                      \o EmptyLine]}

GetTests ==
  {Exchange("gettest", FALSE, <<>>, 200, framing, Whole, TRUE) :
     framing \in Framings}

MCExchanges ==
  Plain \cup Others \cup Ranges \cup Interims \cup Odd \cup ChunkedRanges
    \cup GetTests
MCFaults == AllFaults
NoFaults == {}
=============================================================================
