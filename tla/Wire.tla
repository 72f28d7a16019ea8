-------------------------------- MODULE Wire --------------------------------
(***************************************************************************)
(* The bytes on the way: how CEpollSecond::Run() cuts the stream of one    *)
(* connection into packets, and what the replies of readshmtask::run() are *)
(* made of.  TCP delivers the stream in pieces; read() returns what is     *)
(* there, and Run() does not read on.                                      *)
(*                                                                         *)
(* Sizes are those of the structs of public.h, with their padding.         *)
(***************************************************************************)
EXTENDS Conversions

CONSTANTS
  Kinds,        \* the packets the client sends
  MaxPackets,   \* bound: packets on their way at once
  MaxRows,      \* bound: cards bought, or rows found, for one reply
  Numbers,      \* what clients put in head.number
  Texts         \* texts of amounts and times in the database

VARIABLES
  \* the stream, since the connection was last quiet
  sent,      \* the packets
  arrived,   \* how many of its bytes can be read
  taken,     \* how many have been read
  short,     \* history: a read() returned less than was asked for
  tasks,     \* history: the tasks made until then: where the packet began,
             \* and its type
  at,        \* what Run() reads next: "head", "body"
  head,      \* the head it has read: where it began, and its type
  reply      \* the reply being written, or NoReply

vars == <<sent, arrived, taken, at, head, short, tasks, reply>>

-----------------------------------------------------------------------------
(* public.h.                                                               *)

Int4 == [size |-> 4, align |-> 4]       \* int and float
Chars(n) == [size |-> n, align |-> 1]

RoundUp(n, align) == ((n + align - 1) \div align) * align

(* sizeof: each field at a multiple of its alignment, and so the whole. *)
SizeOf(fields) ==
  LET end[i \in 0 .. Len(fields)] ==
        IF i = 0 THEN 0
        ELSE RoundUp(end[i-1], fields[i].align) + fields[i].size
  IN  RoundUp(end[Len(fields)], Max({fields[i].align : i \in DOMAIN fields}))

HeadSize == SizeOf(<<Int4, Int4, Chars(25)>>)

Bodies ==
  [login   |-> <<Chars(8), Chars(8), Int4, Chars(10), Chars(10)>>,
   buycard |-> <<Int4, Int4, Int4>>,
   cell    |-> <<Chars(14), Chars(10)>>,
   balance |-> <<Chars(14)>>,
   bill    |-> <<Chars(14), Chars(7)>>,
   list    |-> <<Chars(14), Chars(7), Chars(7)>>]

(* Faulty variant: a history row carries its remark in full. *)
LongAnswers ==
  [login   |-> <<Int4>>,
   ask     |-> <<Int4>>,
   confirm |-> <<Chars(10)>>,
   cell    |-> <<Int4>>,
   balance |-> <<Int4, Int4>>,
   bill    |-> <<Int4, Int4, Int4, Int4, Int4, Int4>>,
   list    |-> <<Int4, Chars(14), Chars(14), Int4, Int4, Int4, Chars(25)>>]

Answers ==
  [login   |-> <<Int4>>,
   ask     |-> <<Int4>>,
   confirm |-> <<Chars(10)>>,
   cell    |-> <<Int4>>,
   balance |-> <<Int4, Int4>>,
   bill    |-> <<Int4, Int4, Int4, Int4, Int4, Int4>>,
   list    |-> <<Int4, Chars(14), Chars(14), Int4, Int4, Int4, Chars(21)>>]

Requests == DOMAIN Bodies           \* "beat" has a head only

(* The client sends the packets of public.h, and nothing else; SQLite      *)
(* prints digits, with at most one point.                                  *)
IsNumber(text) ==
  /\ text \in Seq(Nat) /\ text # <<>>
  /\ \A i \in DOMAIN text : text[i] \in Zero .. Zero + 9 \union {Point}
  /\ \A i, j \in DOMAIN text : text[i] = Point /\ text[j] = Point => i = j

ASSUME WireAssumption ==
  /\ Kinds \subseteq Requests \union {"beat"}
  /\ MaxPackets \in Nat /\ MaxRows \in Nat
  /\ Numbers \subseteq Nat
  /\ \A text \in Texts : IsNumber(text)

MBuf == 120                         \* m_buf[i]
RequestBlock == 130
Buff == 1024                        \* buff of run()
ReplyBlock == 1030

BodySize(kind) == IF kind \in Requests THEN SizeOf(Bodies[kind]) ELSE 0
PacketSize(kind) == HeadSize + BodySize(kind)

(* The byte behind the i-th packet sent. *)
End(i) ==
  LET end[j \in 0 .. i] ==
        IF j = 0 THEN 0 ELSE end[j-1] + PacketSize(sent[j])
  IN  end[i]

-----------------------------------------------------------------------------
(* Reading.                                                                *)

NoHead == [from |-> 0, kind |-> "none"]
NoReply == [kind |-> "none"]

Init ==
  /\ sent = <<>> /\ arrived = 0 /\ taken = 0 /\ at = "head"
  /\ head = NoHead
  /\ short = FALSE /\ tasks = <<>> /\ reply = NoReply

(* All that was sent has been read, and Run() waits for a head. *)
Quiet == at = "head" /\ taken = End(Len(sent))

Send(kind) ==
  /\ reply = NoReply
  /\ IF Quiet THEN /\ sent' = <<kind>> /\ tasks' = <<>>
                   /\ arrived' = 0 /\ taken' = 0 /\ short' = FALSE
              ELSE /\ Len(sent) < MaxPackets /\ sent' = Append(sent, kind)
                   /\ UNCHANGED <<arrived, taken, tasks, short>>
  /\ UNCHANGED <<at, head, reply>>

Arrive ==
  /\ arrived < End(Len(sent)) /\ arrived' = arrived + 1
  /\ UNCHANGED <<sent, taken, at, head, short, tasks, reply>>

(* Faulty variant: read() is taken to return all that was asked for. *)
GotAll(size) == size

(* read(fd, &x, size): what is there, up to size; the number of bytes.     *)
Got(size) == Min({size, arrived - taken})

(* The types head may have: that of the packet that begins here, if        *)
(* enough of it was read, else whatever the bytes or the stack hold.       *)
HeadKinds(n) ==
  LET here == {i \in DOMAIN sent : End(i-1) = taken}
  IN  IF here # {} /\ n >= Int4.size THEN {sent[i] : i \in here}
      ELSE Requests \union {"beat", "unknown"}

(* Types without a body make no task. *)
ReadHead ==
  /\ at = "head" /\ arrived > taken
  /\ LET n == Got(HeadSize) IN
       /\ taken' = taken + n
       /\ short' = (short \/ n < HeadSize)
       /\ \E kind \in HeadKinds(n) :
            IF kind \in Requests
              THEN /\ at' = "body"
                   /\ head' = [from |-> IF short' THEN 0 ELSE taken, kind |-> kind]
              ELSE UNCHANGED <<at, head>>
  /\ UNCHANGED <<sent, arrived, tasks, reply>>

(* Faulty variant: a string's last byte is not asked for. *)
ReadBodyLessOne ==
  /\ at = "body" /\ arrived > taken /\ at' = "head"
  /\ LET n == Got(BodySize(head.kind) - 1) IN
       /\ taken' = taken + n
       /\ short' = (short \/ n < BodySize(head.kind) - 1)
       /\ tasks' = IF n > 2 /\ ~short' THEN Append(tasks, head) ELSE tasks
  /\ head' = NoHead
  /\ UNCHANGED <<sent, arrived, reply>>

(* More than two bytes of a body make a task. *)
ReadBody ==
  /\ at = "body" /\ arrived > taken /\ at' = "head"
  /\ LET n == Got(BodySize(head.kind)) IN
       /\ taken' = taken + n
       /\ short' = (short \/ n < BodySize(head.kind))
       /\ tasks' = IF n > 2 /\ ~short' THEN Append(tasks, head) ELSE tasks
  /\ head' = NoHead
  /\ UNCHANGED <<sent, arrived, reply>>

-----------------------------------------------------------------------------
(* Replies.                                                                *)

(* A reply: its head.number, the structs behind the head, its length.      *)
Reply(kind, number, rows) ==
  [kind |-> kind, number |-> number, rows |-> rows,
   length |-> HeadSize + rows * SizeOf(Answers[kind])]

(* Faulty variant: as it was before 2016/07/15. *)
ListReplyOld(rows) == Reply("list", rows, IF rows = 0 THEN 1 ELSE rows)

(* A history: its rows; or one struct that says there are none.            *)
ListReply(rows) ==
  IF rows > 0 THEN Reply("list", rows, rows) ELSE Reply("list", 1, 1)

(* What run() answers to a head with this number: the client's own number  *)
(* goes back with one struct, but a confirmed purchase has the number of   *)
(* its cards, a bill 1 and a history the number of its rows.               *)
RepliesTo(kind, number) ==
  CASE kind = "buycard" -> {Reply("ask", number, 1)}
                             \union {Reply("confirm", n, n) : n \in 0 .. MaxRows}
    [] kind = "bill"    -> {Reply("bill", 1, 1)}
    [] kind = "list"    -> {ListReply(n) : n \in 0 .. MaxRows}
    [] OTHER            -> {Reply(kind, number, 1)}

(* The last task is answered; amounts and times are converted.  What       *)
(* arrives meanwhile makes no difference to a reply, so replies are only   *)
(* made while the connection is quiet.                                     *)
Answer ==
  /\ reply = NoReply /\ Quiet /\ tasks # <<>>
  /\ \E asked \in Numbers, text \in Texts :
       \E r \in RepliesTo(tasks[Len(tasks)].kind, asked) :
         reply' = [kind |-> r.kind, packet |-> r, asked |-> asked,
                   text |-> text, time |-> CharToInt(text),
                   least |-> CharToFloat(text, -1),
                   most |-> CharToFloat(text, 1)]
  /\ UNCHANGED <<sent, arrived, taken, at, head, short, tasks>>

WriteReply ==
  /\ reply # NoReply /\ reply' = NoReply
  /\ UNCHANGED <<sent, arrived, taken, at, head, short, tasks>>

Next ==
  \/ \E kind \in Kinds : Send(kind)
  \/ Arrive \/ ReadHead \/ ReadBody \/ Answer \/ WriteReply

Spec == Init /\ [][Next]_vars

-----------------------------------------------------------------------------
TypeOK ==
  /\ sent \in Seq(Kinds) /\ short \in BOOLEAN
  /\ taken \in 0 .. arrived /\ arrived \in 0 .. End(Len(sent))
  /\ at \in {"head", "body"}
  /\ head \in [from : 0 .. arrived, kind : Requests \union {"none"}]
  /\ tasks \in Seq([from : 0 .. arrived, kind : Requests])
  /\ reply.kind \in DOMAIN Answers \union {"none"}

(* The requests among the packets read to their last byte.                 *)
RequestsRead ==
  LET read[i \in 0 .. Len(sent)] ==
        IF i = 0 THEN <<>>
        ELSE IF sent[i] \in Requests /\ End(i) <= taken
          THEN Append(read[i-1], [from |-> End(i-1), kind |-> sent[i]])
          ELSE read[i-1]
  IN  read[Len(sent)]

(* Until a read() comes back short, the tasks are the requests that were   *)
(* sent, each from its first byte and with its own type, none left out,    *)
(* wherever TCP cuts the stream.  After a short read all of it may be      *)
(* taken for something else, but a connection that falls quiet with Run()  *)
(* at a head is in step again.                                             *)
InStepUntilShort == ~short => tasks = RequestsRead

(* A packet fits m_buf and a block of the request segment.  A reply in     *)
(* buff fits a block of the reply segment, although 8 + 1024 > 1030; and   *)
(* only a purchase of more than 98 cards, or a history of more than 14     *)
(* rows, is not in buff.                                                   *)
EverythingFits ==
  /\ \A i \in DOMAIN tasks :
       /\ PacketSize(tasks[i].kind) <= MBuf
       /\ Int4.size + MBuf <= RequestBlock
  /\ reply # NoReply =>
       LET p == reply.packet IN
       \/ 2 * Int4.size + p.length <= ReplyBlock /\ p.length <= Buff
       \/ p.kind = "confirm" /\ p.rows > 98
       \/ p.kind = "list" /\ p.rows > 14

(* head.number says how many structs follow (public.h:11): a client that   *)
(* reads a head and that many structs is at the next head, if it said 1 in *)
(* its own head where run() sends that back.                               *)
NumberTellsWhatFollows ==
  reply # NoReply =>
    LET p == reply.packet IN
    reply.asked = 1 \/ p.kind \in {"confirm", "bill", "list"} =>
      p.length = HeadSize + p.number * SizeOf(Answers[p.kind])

(* A time without a point that an int holds is read as what it says,       *)
(* although the sum passes '0' too far on its way.  An amount whose whole  *)
(* part a float holds is read as what it says, but for the roundings; one  *)
(* without a point, as if the point were in place of its first digit.      *)
TextsAreReadRight ==
  reply # NoReply =>
    LET unit  == Unit(reply.text)
        value == Decimal(WithPoint(reply.text)) IN
    /\ ~HasPoint(reply.text) /\ Decimal(reply.text) < Half * unit
         => reply.time * unit = Decimal(reply.text)
    /\ value + Zero * unit <= Exact * unit
         => /\ value - Tolerance(reply.text, value) <= reply.least
            /\ reply.most <= value + Tolerance(reply.text, value)
=============================================================================
