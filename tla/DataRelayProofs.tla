--------------------------- MODULE DataRelayProofs ---------------------------
(***************************************************************************)
(* What a window shows of chat and pictures, for any number of joiners,    *)
(* files, chunks and messages, and any number of channels that close.      *)
(*                                                                         *)
(* The names under which something is sent stand in the history of its     *)
(* sender in the order they were sent in.  The invariant says that frames  *)
(* keep this order at every place on their way, and that the chunks of a   *)
(* file follow each other.                                                 *)
(***************************************************************************)
EXTENDS DataRelay, TLAPS

ChunkFrame == [type : {"chunk"}, file : File, number : Nat]
ChatFrame == [type : {"chat"}, from : Window, id : Stamp]
Frame == [type : {"FILE_META"}, file : File] \cup ChunkFrame \cup ChatFrame

Message == ChatFrame \cup [type : {"image"}, from : Window, id : File, chunks : Seq(ChunkFrame)]

FileEntry == [current : File \cup {NoFile}, states : [File -> Seq(ChunkFrame) \cup {NoState}]]

Up(j) == <<j, Owner>>
Down(j) == <<Owner, j>>

\* Who sent a frame, and what it belongs to.
Sender(x) == IF x.type = "chat" THEN x.from ELSE SenderOf[x.file]
Named(x) == IF x.type = "chat" THEN <<"chat", x.id>> ELSE <<"image", x.file>>
Number(x) == IF x.type = "chunk" THEN x.number ELSE 0

\* Of a history.
Recorded(log, name) == \E n \in 1..Len(log) : WasSent(log[n]) = name

Earlier(log, a, b) ==
  \A n, m \in 1..Len(log) : WasSent(log[n]) = a /\ WasSent(log[m]) = b => n < m

Precedes(log, x, y) ==
  \/ Earlier(log, Named(x), Named(y))
  \/ x.type # "chat" /\ y.type # "chat" /\ x.file = y.file /\ Number(x) < Number(y)

\* Of a queue: its first n frames, handled after one another in a window with entry e,
\* leave the assembler ready for the chunk y, or without the file.
Leads(x, y) == x.type # "chat" /\ x.file = y.file /\ y.number = Number(x) + 1

FirstChunks(f, n) == [i \in 1..n |-> Chunk(f, i)]

Awaits(e, y) ==
  /\ e.current = y.file
  /\ e.states[y.file] = NoState \/ e.states[y.file] = FirstChunks(y.file, y.number - 1)

Follows(q, n, e, y) ==
  \/ \E k \in 1..n : Leads(q[k], y) /\ \A m \in (k + 1)..n : q[m].type = "chat"
  \/ (\A m \in 1..n : q[m].type = "chat") /\ Awaits(e, y)

-----------------------------------------------------------------------------
RelayTypes ==
  /\ open \subseteq Joiner
  /\ wire \in [Link -> Seq(Frame)]
  /\ entry \in [Link -> FileEntry]
  /\ messages \in [Window -> Seq(Message)]
  /\ sent \in [Window -> Seq(Message)]
  /\ announced \in [Joiner -> File \cup {NoFile}]
  /\ mixed \subseteq Joiner

\* Whatever is on its way or has arrived was sent, by somebody else.
Genuine(log, l, x) ==
  /\ Recorded(log[Sender(x)], Named(x))
  /\ Sender(x) # l[2]
  /\ l[2] = Owner => Sender(x) = l[1]
  /\ x.type = "chunk" => x.number \in 1..TotalChunks[x.file]

Known(log, f) == Recorded(log[SenderOf[f]], <<"image", f>>)

NothingIsMadeUp ==
  /\ \A s \in Window : \A n, m \in 1..Len(sent[s]) :
       WasSent(sent[s][n]) = WasSent(sent[s][m]) => n = m
  /\ \A l \in Link : \A i \in 1..Len(wire[l]) : Genuine(sent, l, wire[l][i])
  /\ \A w \in Window : \A i \in 1..Len(messages[w]) :
       /\ Recorded(sent[messages[w][i].from], WasSent(messages[w][i]))
       /\ messages[w][i].type = "image" => messages[w][i].from = SenderOf[messages[w][i].id]
  /\ \A j \in Joiner : announced[j] # NoFile =>
       j \in open /\ Known(sent, announced[j]) /\ SenderOf[announced[j]] # j
  /\ \A l \in Link : entry[l].current # NoFile =>
       /\ Known(sent, entry[l].current)
       /\ SenderOf[entry[l].current] # l[2]
       /\ l[2] = Owner => SenderOf[entry[l].current] = l[1]

\* A file is announced once at each place.
Gone(q, f) == \A i \in 1..Len(q) : q[i] # Meta(f)

GoneOn(net, l, f) ==
  Gone(net[l], f) /\ (SenderOf[f] \in Joiner => Gone(net[Up(SenderOf[f])], f))

AnnouncedOnce ==
  /\ \A j \in Joiner : announced[j] # NoFile /\ SenderOf[announced[j]] \in Joiner =>
       Gone(wire[Up(SenderOf[announced[j]])], announced[j])
  /\ \A l \in Link : entry[l].current # NoFile => GoneOn(wire, l, entry[l].current)
  /\ \A l \in Link : \A i \in 1..Len(messages[l[2]]) :
       messages[l[2]][i].type = "image" /\ messages[l[2]][i].from # l[2] =>
         /\ entry[l].current # messages[l[2]][i].id
         /\ GoneOn(wire, l, messages[l[2]][i].id)

\* The frames of one sender are in the order they were sent in, on a channel and from
\* one channel to the next.
WireInOrder ==
  /\ \A l \in Link : \A i, k \in 1..Len(wire[l]) :
       i < k /\ Sender(wire[l][i]) = Sender(wire[l][k]) =>
         Precedes(sent[Sender(wire[l][i])], wire[l][i], wire[l][k])
  /\ \A j, s \in Joiner : \A i \in 1..Len(wire[Down(j)]), k \in 1..Len(wire[Up(s)]) :
       Sender(wire[Down(j)][i]) = s => Precedes(sent[s], wire[Down(j)][i], wire[Up(s)][k])

\* So is what a window shows, and it is ahead of what is still to come.
PaneInOrder ==
  /\ \A w \in Window : \A i, k \in 1..Len(messages[w]) :
       i < k /\ messages[w][i].from = messages[w][k].from =>
         /\ WasSent(messages[w][i]) # WasSent(messages[w][k])
         /\ w \notin mixed => Earlier(sent[messages[w][i].from], WasSent(messages[w][i]),
                                      WasSent(messages[w][k]))
  /\ \A l \in Link : l[2] \notin mixed =>
       \A i \in 1..Len(messages[l[2]]), k \in 1..Len(wire[l]) :
         messages[l[2]][i].from = Sender(wire[l][k]) =>
           Earlier(sent[messages[l[2]][i].from], WasSent(messages[l[2]][i]), Named(wire[l][k]))
  /\ \A j, s \in Joiner : j # s /\ j \notin mixed =>
       \A i \in 1..Len(messages[j]), k \in 1..Len(wire[Up(s)]) :
         messages[j][i].from = s =>
           Earlier(sent[s], WasSent(messages[j][i]), Named(wire[Up(s)][k]))

\* A chunk finds the assembler ready for it, and so will the next one the owner's
\* window has to pass on.
IsFirstOf(q, i, f) ==
  /\ q[i].type = "chunk" /\ q[i].file = f
  /\ \A k \in 1..(i - 1) : ~(q[k].type = "chunk" /\ q[k].file = f)

ChunksFollow ==
  /\ \A l \in Link : l[2] \notin mixed => \A i \in 1..Len(wire[l]) :
       wire[l][i].type = "chunk" => Follows(wire[l], i - 1, entry[l], wire[l][i])
  /\ \A j, s \in Joiner :
       j \notin mixed /\ announced[j] # NoFile /\ SenderOf[announced[j]] = s =>
         \A i \in 1..Len(wire[Up(s)]) : IsFirstOf(wire[Up(s)], i, announced[j]) =>
           Follows(wire[Down(j)], Len(wire[Down(j)]), entry[Down(j)], wire[Up(s)][i])

RelayInv ==
  /\ RelayTypes /\ NothingIsMadeUp /\ AnnouncedOnce /\ WireInOrder /\ PaneInOrder
  /\ ChunksFollow /\ PicturesAreWhole

-----------------------------------------------------------------------------
(* Links, frames, names and histories.                                     *)

LEMMA Links ==
  /\ Owner \notin Joiner /\ Owner \in Window /\ Joiner \subseteq Window
  /\ \A j \in Joiner : /\ Up(j) \in Link /\ Up(j)[1] = j /\ Up(j)[2] = Owner
                       /\ Down(j) \in Link /\ Down(j)[1] = Owner /\ Down(j)[2] = j
  /\ \A l \in Link : (\E j \in Joiner : l = Up(j)) \/ (\E j \in Joiner : l = Down(j))
  /\ \A l \in Link : l[1] \in Window /\ l[2] \in Window /\ l[1] # l[2]
  /\ \A l \in Link : l[2] = Owner => l[1] \in Joiner /\ l = Up(l[1])
  /\ \A l \in Link : l[2] # Owner => l[2] \in Joiner /\ l = Down(l[2])
<1>1. Owner \notin Joiner
  BY RelayAssumption
<1>2. Owner \in Window /\ Joiner \subseteq Window
  BY DEF Window
<1>3. \A j \in Joiner : /\ Up(j) \in Link /\ Up(j)[1] = j /\ Up(j)[2] = Owner
                       /\ Down(j) \in Link /\ Down(j)[1] = Owner /\ Down(j)[2] = j
  BY <1>1, <1>2 DEF Link, Up, Down
<1>4. ASSUME NEW l \in Link
      PROVE  /\ l[1] \in Window /\ l[2] \in Window /\ l[1] # l[2]
             /\ l[2] = Owner => l[1] \in Joiner /\ l = Up(l[1])
             /\ l[2] # Owner => l[2] \in Joiner /\ l = Down(l[2])
  <2>1. PICK a \in Window, b \in Window : l = <<a, b>>
    BY DEF Link
  <2>2. l[1] = a /\ l[2] = b
    BY <2>1
  <2>3. a # b /\ (a = Owner \/ b = Owner)
    BY <2>2 DEF Link
  <2>4. QED
    BY <1>1, <2>1, <2>2, <2>3 DEF Window, Up, Down
<1>5. QED
  BY <1>1, <1>2, <1>3, <1>4

LEMMA Frames ==
  /\ \A x \in Frame : /\ x.type \in {"FILE_META", "chunk", "chat"}
                      /\ x.type = "FILE_META" => x.file \in File /\ x = Meta(x.file)
                      /\ x.type = "chunk" => /\ x.file \in File /\ x.number \in Nat
                                             /\ x = Chunk(x.file, x.number)
                      /\ x.type = "chat" => x \in ChatFrame /\ x.from \in Window /\ x.id \in Stamp
                      /\ Number(x) \in Nat
                      /\ Sender(x) \in Window
  /\ \A f \in File : Meta(f) \in Frame /\ Meta(f).type = "FILE_META" /\ Meta(f).file = f
  /\ \A f \in File, n \in Nat :
       /\ Chunk(f, n) \in Frame /\ Chunk(f, n).type = "chunk"
       /\ Chunk(f, n).file = f /\ Chunk(f, n).number = n
  /\ \A w \in Window, id \in Stamp :
       /\ Chat(w, id) \in Frame /\ Chat(w, id) \in Message /\ Chat(w, id).type = "chat"
       /\ Chat(w, id).from = w /\ Chat(w, id).id = id
<1>1. SenderOf \in [File -> Window]
  BY RelayAssumption DEF Window
<1>2. \A x \in Frame : x.type \in {"FILE_META", "chunk", "chat"}
  BY DEF Frame, ChunkFrame, ChatFrame
<1>3. \A x \in Frame : x.type = "FILE_META" => x.file \in File /\ x = Meta(x.file)
  BY DEF Frame, ChunkFrame, ChatFrame, Meta
<1>4. \A x \in Frame : x.type = "chunk" => /\ x.file \in File /\ x.number \in Nat
                                           /\ x = Chunk(x.file, x.number)
  BY DEF Frame, ChunkFrame, ChatFrame, Chunk
<1>5. \A x \in Frame : x.type = "chat" => x \in ChatFrame /\ x.from \in Window /\ x.id \in Stamp
  BY DEF Frame, ChunkFrame, ChatFrame
<1>6. \A x \in Frame : Number(x) \in Nat
  BY <1>4 DEF Number
<1>7. \A x \in Frame : Sender(x) \in Window
  BY <1>1, <1>2, <1>3, <1>4, <1>5 DEF Sender
<1>8. \A f \in File : Meta(f) \in Frame /\ Meta(f).type = "FILE_META" /\ Meta(f).file = f
  BY DEF Frame, Meta
<1>9. \A f \in File, n \in Nat :
       /\ Chunk(f, n) \in Frame /\ Chunk(f, n).type = "chunk"
       /\ Chunk(f, n).file = f /\ Chunk(f, n).number = n
  BY DEF Frame, Chunk, ChunkFrame
<1>10. \A w \in Window, id \in Stamp :
       /\ Chat(w, id) \in Frame /\ Chat(w, id) \in Message /\ Chat(w, id).type = "chat"
       /\ Chat(w, id).from = w /\ Chat(w, id).id = id
  BY DEF Frame, Chat, ChatFrame, Message
<1>11. QED
  BY <1>2, <1>3, <1>4, <1>5, <1>6, <1>7, <1>8, <1>9, <1>10

LEMMA Messages ==
  \A m \in Message : /\ m.type \in {"chat", "image"} /\ m.from \in Window
                     /\ m.type = "chat" => m \in ChatFrame /\ m.id \in Stamp
                     /\ m.type = "image" => m.id \in File
                     /\ WasSent(m) = <<m.type, m.id>>
BY DEF Message, ChatFrame, WasSent

\* One name more.
LEMMA GrownLog ==
  ASSUME NEW log \in Seq(Message), NEW m, ~Recorded(log, WasSent(m))
  PROVE  /\ Recorded(Append(log, m), WasSent(m))
         /\ \A a : Recorded(log, a) => Recorded(Append(log, m), a)
         /\ \A a : Recorded(log, a) => Earlier(Append(log, m), a, WasSent(m))
         /\ \A a, b : Recorded(log, a) /\ Recorded(log, b) /\ Earlier(log, a, b) =>
              Earlier(Append(log, m), a, b)
<1>1. /\ Len(log) \in Nat /\ Len(Append(log, m)) = Len(log) + 1
      /\ Append(log, m)[Len(log) + 1] = m
      /\ \A n \in 1..Len(log) : Append(log, m)[n] = log[n]
  OBVIOUS
<1>2. \A n \in 1..(Len(log) + 1) : n = Len(log) + 1 \/ n \in 1..Len(log)
  BY <1>1
<1>3. \A a : Recorded(log, a) => a # WasSent(m)
  OBVIOUS
<1> HIDE DEF WasSent
<1> DEFINE grown == Append(log, m)
<1>4. Recorded(grown, WasSent(m)) /\ \A a : Recorded(log, a) => Recorded(grown, a)
  BY <1>1 DEF Recorded
<1>5. \A a : \A n \in 1..Len(grown) : WasSent(grown[n]) = a /\ a # WasSent(m) =>
        n \in 1..Len(log) /\ WasSent(log[n]) = a
  BY <1>1, <1>2
<1>6. ASSUME NEW a, Recorded(log, a)
      PROVE  Earlier(grown, a, WasSent(m))
  BY <1>1, <1>2, <1>3, <1>6 DEF Earlier, Recorded
<1>7. ASSUME NEW a, NEW b, Recorded(log, a), Recorded(log, b), Earlier(log, a, b)
      PROVE  Earlier(grown, a, b)
  BY <1>1, <1>2, <1>3, <1>7 DEF Earlier
<1>8. QED
  BY <1>4, <1>6, <1>7

LEMMA EarlierIsOther ==
  ASSUME NEW log \in Seq(Message), NEW a, Recorded(log, a)
  PROVE  ~Earlier(log, a, a)
BY DEF Earlier, Recorded

-----------------------------------------------------------------------------
(* What the actions have in common: somebody writes something, a window    *)
(* takes a frame, or frames, lines and assemblers are lost.                *)

Speaks(w, item, frames) ==
  /\ w \in Window /\ item \in Message /\ item.from = w
  /\ item.type = "image" => SenderOf[item.id] = w
  /\ ~Recorded(sent[w], WasSent(item))
  /\ frames \in Seq(Frame)
  /\ \A i \in 1..Len(frames) :
       /\ Sender(frames[i]) = w /\ Named(frames[i]) = WasSent(item)
       /\ frames[i].type = "chat" <=> item.type = "chat"
       /\ frames[i].type = "chunk" =>
            /\ frames[i].number \in 1..TotalChunks[frames[i].file]
            /\ i - 1 \in 1..Len(frames) /\ Leads(frames[i - 1], frames[i])
  /\ \A i, k \in 1..Len(frames) : i < k =>
       /\ frames[i].type # "chat" /\ frames[k].type # "chat"
       /\ frames[i].file = frames[k].file /\ Number(frames[i]) < Number(frames[k])
  /\ sent' = [sent EXCEPT ![w] = Append(@, item)]
  /\ messages' = [messages EXCEPT ![w] = Append(@, item)]
  /\ wire' = [l \in Link |-> IF l[1] = w /\ IsOpen(l) THEN wire[l] \o frames ELSE wire[l]]
  /\ announced' = [j \in Joiner |-> IF w = Owner /\ j \in open /\ item.type = "image"
                                      THEN item.id ELSE announced[j]]
  /\ item.type = "image" =>
       item.chunks = SplitIntoChunks(item.id) /\ frames # <<>> /\ frames[1] = Meta(item.id)
  /\ UNCHANGED <<open, entry, mixed>>

\* A window takes x from l and passes it on to the joiners in on.
Takes(l, x, on) ==
  /\ l \in Link /\ wire[l] # <<>> /\ x = wire[l][1]
  /\ on \subseteq open
  /\ l[2] # Owner => on = {}
  /\ l[2] = Owner => on = open \ {l[1]}
  /\ wire' = [d \in Link |-> IF d = l THEN Tail(wire[d])
                             ELSE IF d[1] = Owner /\ d[2] \in on THEN Append(wire[d], x)
                             ELSE wire[d]]
  /\ entry' = [entry EXCEPT ![l] = EntryAfter(@, x)]
  /\ messages' = [messages EXCEPT ![l[2]] = MessagesAfter(@, entry[l], x)]
  /\ announced' = [j \in Joiner |-> IF j \in on /\ x.type = "FILE_META"
                                      THEN x.file ELSE announced[j]]
  /\ mixed' = mixed \cup {j \in on : x.type = "chunk" /\ x.file # announced[j]}
  /\ UNCHANGED <<open, sent>>

Loses ==
  /\ wire' \in [Link -> Seq(Frame)]
  /\ \A l \in Link : wire'[l] = wire[l] \/ wire'[l] = <<>>
  /\ announced' \in [Joiner -> File \cup {NoFile}]
  /\ \A j \in Joiner :
       \/ announced'[j] = NoFile
       \/ /\ announced'[j] = announced[j] /\ wire'[Down(j)] = wire[Down(j)]
          /\ j \in open => j \in open'
  /\ entry' \in [Link -> FileEntry]
  /\ \A l \in Link : /\ entry'[l].current = entry[l].current
                     /\ \A f \in File : entry'[l].states[f] \in {entry[l].states[f], NoState}
  /\ open' \subseteq Joiner
  /\ UNCHANGED <<messages, sent, mixed>>

LEMMA OpenLinks ==
  ASSUME RelayTypes
  PROVE  /\ \A j \in Joiner : IsOpen(Down(j)) <=> j \in open
         /\ \A j \in Joiner : IsOpen(Up(j)) <=> j \in open
<1>1. Owner \notin open /\ Owner \notin Joiner
  BY Links DEF RelayTypes
<1>2. \A j \in Joiner : IsOpen(Down(j)) <=> j \in open
  <2>1. \A j \in Joiner : Down(j)[1] = Owner /\ Down(j)[2] = j
    BY Links
  <2>2. QED
    BY <1>1, <2>1 DEF IsOpen
<1>3. \A j \in Joiner : IsOpen(Up(j)) <=> j \in open
  <2>1. \A j \in Joiner : Up(j)[1] = j /\ Up(j)[2] = Owner
    BY Links
  <2>2. QED
    BY <1>1, <2>1 DEF IsOpen
<1>4. QED
  BY <1>2, <1>3

LEMMA NotRecorded ==
  ASSUME RelayTypes, NEW w \in Window, NEW name,
         name \notin {WasSent(sent[w][i]) : i \in 1..Len(sent[w])}
  PROVE  ~Recorded(sent[w], name)
BY DEF Recorded

LEMMA Splitting ==
  ASSUME NEW f \in File
  PROVE  /\ SplitIntoChunks(f) \in Seq(ChunkFrame) /\ SplitIntoChunks(f) \in Seq(Frame)
         /\ Len(SplitIntoChunks(f)) = TotalChunks[f] /\ TotalChunks[f] \in Nat
         /\ \A n \in 1..TotalChunks[f] : SplitIntoChunks(f)[n] = Chunk(f, n)
<1>1. TotalChunks[f] \in Nat
  BY RelayAssumption
<1>2. \A n \in 1..TotalChunks[f] : Chunk(f, n) \in ChunkFrame
  BY <1>1 DEF Chunk, ChunkFrame
<1>3. ChunkFrame \subseteq Frame
  BY DEF Frame
<1> HIDE DEF ChunkFrame, Frame, Chunk
<1>4. SplitIntoChunks(f) \in [1..TotalChunks[f] -> ChunkFrame]
  BY <1>2 DEF SplitIntoChunks
<1>5. \A n \in 1..TotalChunks[f] : SplitIntoChunks(f)[n] = Chunk(f, n)
  BY DEF SplitIntoChunks
<1>6. SplitIntoChunks(f) \in Seq(ChunkFrame) /\ Len(SplitIntoChunks(f)) = TotalChunks[f]
  BY <1>1, <1>4
<1>7. SplitIntoChunks(f) \in Seq(Frame)
  BY <1>3, <1>6
<1>8. QED
  BY <1>1, <1>5, <1>6, <1>7

\* The frames of a picture.
LEMMA Burst ==
  ASSUME NEW f \in File, NEW frames, frames = <<Meta(f)>> \o SplitIntoChunks(f)
  PROVE  /\ frames \in Seq(Frame) /\ frames # <<>> /\ frames[1] = Meta(f) /\ Head(frames) = Meta(f)
         /\ Len(frames) = TotalChunks[f] + 1 /\ TotalChunks[f] \in Nat
         /\ \A i \in 2..(TotalChunks[f] + 1) : frames[i] = Chunk(f, i - 1)
<1>1. Meta(f) \in Frame
  BY Frames
<1>2. <<Meta(f)>> \in Seq(Frame) /\ Len(<<Meta(f)>>) = 1 /\ <<Meta(f)>>[1] = Meta(f)
  BY <1>1
<1> DEFINE s == SplitIntoChunks(f)
<1>3. /\ s \in Seq(Frame) /\ Len(s) = TotalChunks[f] /\ TotalChunks[f] \in Nat
      /\ \A n \in 1..TotalChunks[f] : s[n] = Chunk(f, n)
  BY Splitting
<1> HIDE DEF s
<1>4. /\ frames \in Seq(Frame) /\ Len(frames) = TotalChunks[f] + 1
      /\ frames[1] = Meta(f) /\ frames # <<>> /\ Head(frames) = frames[1]
      /\ \A n \in 1..TotalChunks[f] : frames[n + 1] = s[n]
  BY <1>2, <1>3 DEF s
<1>5. ASSUME NEW i \in 2..(TotalChunks[f] + 1)
      PROVE  frames[i] = Chunk(f, i - 1)
  <2>1. i - 1 \in 1..TotalChunks[f] /\ (i - 1) + 1 = i
    BY <1>3
  <2>2. QED
    BY <1>3, <1>4, <2>1
<1>6. QED
  BY <1>3, <1>4, <1>5

LEMMA LinksOf ==
  ASSUME RelayTypes, NEW w \in Window, NEW j \in Joiner
  PROVE  <<Owner, j>> \in {l \in LinksFrom(w) : IsOpen(l)} <=> w = Owner /\ j \in open
<1>1. /\ Down(j) \in Link /\ Down(j)[1] = Owner
      /\ IsOpen(Down(j)) <=> j \in open
  BY Links, OpenLinks
<1>2. QED
  BY <1>1 DEF LinksFrom, Down

LEMMA ImageIsSpoken ==
  ASSUME RelayTypes, NEW f \in File, HandleSendImage(f)
  PROVE  Speaks(SenderOf[f], Image(f, SplitIntoChunks(f)), <<Meta(f)>> \o SplitIntoChunks(f))
<1> DEFINE w == SenderOf[f]
           item == Image(f, SplitIntoChunks(f))
           frames == <<Meta(f)>> \o SplitIntoChunks(f)
           reached == {l \in LinksFrom(w) : IsOpen(l)}
<1>1. w \in Window
  BY RelayAssumption DEF Window
<1>2. /\ <<"image", f>> \notin {WasSent(sent[w][i]) : i \in 1..Len(sent[w])}
      /\ SendRaw(LinksFrom(w), frames, wire)
      /\ messages' = [messages EXCEPT ![w] = Append(@, item)]
      /\ sent' = [sent EXCEPT ![w] = Append(@, item)]
      /\ UNCHANGED <<open, entry, closes>>
  BY DEF HandleSendImage
<1>3. /\ frames \in Seq(Frame) /\ frames # <<>> /\ frames[1] = Meta(f) /\ Head(frames) = Meta(f)
      /\ Len(frames) = TotalChunks[f] + 1 /\ TotalChunks[f] \in Nat
      /\ \A i \in 2..(TotalChunks[f] + 1) : frames[i] = Chunk(f, i - 1)
  BY Burst
<1>4. /\ item.type = "image" /\ item.from = w /\ item.id = f /\ item.chunks = SplitIntoChunks(f)
      /\ item \in Message /\ WasSent(item) = <<"image", f>>
  BY <1>1, Splitting DEF Image, Message, WasSent
<1>5. ~Recorded(sent[w], WasSent(item))
  BY <1>1, <1>2, <1>4, NotRecorded
<1> HIDE DEF frames, item, w
<1>6. \A i \in 1..Len(frames) : (i = 1 /\ frames[i] = Meta(f))
                               \/ (i \in 2..(TotalChunks[f] + 1) /\ frames[i] = Chunk(f, i - 1))
  BY <1>3
<1>7. /\ Meta(f).type = "FILE_META" /\ Meta(f).file = f
      /\ \A n \in Nat : /\ Chunk(f, n).type = "chunk" /\ Chunk(f, n).file = f
                        /\ Chunk(f, n).number = n
  BY Frames
<1>8. ASSUME NEW i \in 1..Len(frames)
      PROVE  /\ frames[i].file = f /\ frames[i].type # "chat" /\ Number(frames[i]) = i - 1
             /\ frames[i].type = "chunk" => i \in 2..(TotalChunks[f] + 1) /\ frames[i].number = i - 1
  <2>1. CASE i = 1 /\ frames[i] = Meta(f)
    BY <1>7, <2>1 DEF Number
  <2>2. CASE i \in 2..(TotalChunks[f] + 1) /\ frames[i] = Chunk(f, i - 1)
    <3>1. i - 1 \in Nat
      BY <1>3, <2>2
    <3>2. QED
      BY <1>7, <2>2, <3>1 DEF Number
  <2>3. QED
    BY <1>6, <2>1, <2>2
<1>9. \A i \in 1..Len(frames) :
       /\ Sender(frames[i]) = w /\ Named(frames[i]) = WasSent(item)
       /\ frames[i].type = "chat" <=> item.type = "chat"
  BY <1>4, <1>8 DEF Sender, Named, w
<1>10. ASSUME NEW i \in 1..Len(frames), frames[i].type = "chunk"
       PROVE  /\ frames[i].number \in 1..TotalChunks[frames[i].file]
              /\ i - 1 \in 1..Len(frames) /\ Leads(frames[i - 1], frames[i])
  <2>1. i \in 2..(TotalChunks[f] + 1) /\ frames[i].number = i - 1 /\ frames[i].file = f
    BY <1>8, <1>10
  <2>2. i - 1 \in 1..Len(frames) /\ i - 1 \in 1..TotalChunks[f]
    BY <1>3, <2>1
  <2>3. frames[i - 1].file = f /\ frames[i - 1].type # "chat" /\ Number(frames[i - 1]) = (i - 1) - 1
    BY <1>8, <2>2
  <2>4. QED
    BY <1>3, <2>1, <2>2, <2>3 DEF Leads
<1>11. \A i, k \in 1..Len(frames) : i < k =>
       /\ frames[i].type # "chat" /\ frames[k].type # "chat"
       /\ frames[i].file = frames[k].file /\ Number(frames[i]) < Number(frames[k])
  <2>1. SUFFICES ASSUME NEW i \in 1..Len(frames), NEW k \in 1..Len(frames), i < k
                 PROVE  /\ frames[i].type # "chat" /\ frames[k].type # "chat"
                        /\ frames[i].file = frames[k].file
                        /\ Number(frames[i]) < Number(frames[k])
    OBVIOUS
  <2>2. Number(frames[i]) = i - 1 /\ Number(frames[k]) = k - 1
    BY <1>8
  <2>3. i \in Nat /\ k \in Nat
    BY <1>3
  <2>4. QED
    BY <1>8, <2>1, <2>2, <2>3
<1>12. wire' = [l \in Link |-> IF l[1] = w /\ IsOpen(l) THEN wire[l] \o frames ELSE wire[l]]
  BY <1>2 DEF SendRaw, LinksFrom
<1>13. \A j \in Joiner : <<Owner, j>> \in reached <=> w = Owner /\ j \in open
  BY <1>1, LinksOf
<1>14. announced' = [j \in Joiner |-> IF w = Owner /\ j \in open /\ item.type = "image"
                                        THEN item.id ELSE announced[j]]
  BY <1>2, <1>3, <1>4, <1>7, <1>13 DEF SendRaw
<1>15. mixed' = mixed
  <2>1. \A j \in Joiner : ~Mixes(j, frames)
    BY <1>3, <1>6, <1>7 DEF Mixes
  <2>2. QED
    BY <1>2, <2>1 DEF SendRaw
<1>16. w = SenderOf[f]
  BY DEF w
<1>17. QED
  BY <1>1, <1>2, <1>3, <1>4, <1>5, <1>9, <1>10, <1>11, <1>12, <1>14, <1>15, <1>16
     DEF Speaks, item, frames, w

LEMMA MessageIsSpoken ==
  ASSUME RelayTypes, NEW w \in Writer, NEW id \in Stamp, OnSendMessage(w, id)
  PROVE  Speaks(w, Chat(w, id), <<Chat(w, id)>>)
<1> DEFINE item == Chat(w, id)
           frames == <<Chat(w, id)>>
           reached == {l \in LinksFrom(w) : IsOpen(l)}
<1>1. w \in Window
  BY RelayAssumption DEF Window
<1>2. /\ <<"chat", id>> \notin {WasSent(sent[w][i]) : i \in 1..Len(sent[w])}
      /\ SendRaw(LinksFrom(w), frames, wire)
      /\ messages' = [messages EXCEPT ![w] = Append(@, item)]
      /\ sent' = [sent EXCEPT ![w] = Append(@, item)]
      /\ UNCHANGED <<open, entry, closes>>
  BY DEF OnSendMessage
<1>3. /\ item.type = "chat" /\ item.from = w /\ item.id = id /\ item \in Message /\ item \in Frame
      /\ WasSent(item) = <<"chat", id>> /\ Sender(item) = w /\ Named(item) = <<"chat", id>>
  BY <1>1, Frames DEF WasSent, Sender, Named
<1>4. ~Recorded(sent[w], WasSent(item))
  BY <1>1, <1>2, <1>3, NotRecorded
<1> HIDE DEF item
<1>5. /\ frames \in Seq(Frame) /\ Len(frames) = 1 /\ frames[1] = item /\ Head(frames) = item
  BY <1>3 DEF item
<1> HIDE DEF frames
<1>6. wire' = [l \in Link |-> IF l[1] = w /\ IsOpen(l) THEN wire[l] \o frames ELSE wire[l]]
  BY <1>2 DEF SendRaw, LinksFrom
<1>7. announced' = [j \in Joiner |-> IF w = Owner /\ j \in open /\ item.type = "image"
                                        THEN item.id ELSE announced[j]]
  BY <1>2, <1>3, <1>5 DEF SendRaw
<1>8. mixed' = mixed
  <2>1. \A j \in Joiner : ~Mixes(j, frames)
    BY <1>3, <1>5 DEF Mixes
  <2>2. QED
    BY <1>2, <2>1 DEF SendRaw
<1>9. QED
  BY <1>1, <1>2, <1>3, <1>4, <1>5, <1>6, <1>7, <1>8 DEF Speaks, item, frames

LEMMA FrameIsTaken ==
  ASSUME RelayTypes, NEW s \in Window, NEW w \in Window, HandleIncomingData(s, w)
  PROVE  \E l, x, on : Takes(l, x, on)
<1> DEFINE l == <<s, w>>
           x == Head(wire[l])
           on == {j \in Joiner : w = Owner /\ j \in open /\ j # s}
           reached == {d \in RelayedTo(s, w) : IsOpen(d)}
<1>1. /\ l \in Link /\ wire[l] # <<>>
      /\ SendRaw(RelayedTo(s, w), <<x>>, [wire EXCEPT ![l] = Tail(@)])
      /\ entry' = [entry EXCEPT ![l] = EntryAfter(@, x)]
      /\ messages' = [messages EXCEPT ![w] = MessagesAfter(@, entry[l], x)]
      /\ UNCHANGED <<open, sent, closes>>
  BY DEF HandleIncomingData
<1>2. l[1] = s /\ l[2] = w
  OBVIOUS
<1> HIDE DEF l
<1>3. wire[l] \in Seq(Frame) /\ x = wire[l][1]
  BY <1>1 DEF RelayTypes
<1>4. ASSUME NEW d \in Link
      PROVE  d \in reached <=> d # l /\ d[1] = Owner /\ d[2] \in on
  <2>1. CASE w # Owner
    BY <2>1 DEF RelayedTo
  <2>2. CASE w = Owner /\ d[1] # Owner
    BY <2>2 DEF RelayedTo, LinksFrom
  <2>3. CASE w = Owner /\ d[1] = Owner
    <3>1. d[2] \in Joiner /\ d = Down(d[2]) /\ d # l
      BY <1>1, <1>2, <2>3, Links
    <3>2. d \in reached <=> d # <<Owner, s>> /\ IsOpen(d)
      BY <2>3 DEF RelayedTo, LinksFrom
    <3>3. IsOpen(d) <=> d[2] \in open
      BY <3>1, OpenLinks
    <3>4. d # <<Owner, s>> <=> d[2] # s
      BY <3>1 DEF Down
    <3>5. QED
      BY <2>3, <3>1, <3>2, <3>3, <3>4
  <2>4. QED
    BY <2>1, <2>2, <2>3
<1>5. \A j \in Joiner : <<Owner, j>> \in reached <=> j \in on
  <2>1. SUFFICES ASSUME NEW j \in Joiner
                 PROVE  Down(j) \in reached <=> j \in on
    BY DEF Down
  <2>2. Down(j) \in Link /\ Down(j)[1] = Owner /\ Down(j)[2] = j
    BY Links
  <2>3. j \in on => Down(j) # l
    BY <1>1, <1>2, <2>2, Links
  <2>4. QED
    BY <1>4, <2>2, <2>3
<1> DEFINE frames == <<x>>
<1>6. frames # <<>> /\ Head(frames) = x /\ Len(frames) = 1 /\ frames[1] = x
  OBVIOUS
<1>7. \A q : q \o frames = Append(q, x)
  OBVIOUS
<1>8. SendRaw(RelayedTo(s, w), frames, [wire EXCEPT ![l] = Tail(@)])
  BY <1>1
<1> HIDE DEF frames, x, on
<1>9. wire' = [d \in Link |-> IF d = l THEN Tail(wire[d])
                             ELSE IF d[1] = Owner /\ d[2] \in on THEN Append(wire[d], x)
                             ELSE wire[d]]
  <2> DEFINE rest == [wire EXCEPT ![l] = Tail(@)]
  <2>1. \A d \in Link : rest[d] = IF d = l THEN Tail(wire[l]) ELSE wire[d]
    BY <1>1 DEF RelayTypes
  <2>2. wire' = [d \in Link |-> IF d \in reached THEN rest[d] \o frames ELSE rest[d]]
    BY <1>8 DEF SendRaw
  <2> HIDE DEF rest, reached
  <2>3. QED
    BY <1>4, <2>1, <2>2, <1>7
<1>10. announced' = [j \in Joiner |-> IF j \in on /\ x.type = "FILE_META"
                                      THEN x.file ELSE announced[j]]
  BY <1>5, <1>6, <1>8 DEF SendRaw
<1>11. mixed' = mixed \cup {j \in on : x.type = "chunk" /\ x.file # announced[j]}
  <2>1. \A j \in Joiner : Mixes(j, frames) <=> x.type = "chunk" /\ x.file # announced[j]
    BY <1>6 DEF Mixes
  <2>2. on \subseteq Joiner
    BY DEF on
  <2>3. QED
    BY <1>5, <1>8, <2>1, <2>2 DEF SendRaw
<1>12. /\ on \subseteq open /\ (l[2] # Owner => on = {})
       /\ l[2] = Owner => on = open \ {l[1]}
  BY <1>2 DEF on, RelayTypes
<1>13. Takes(l, x, on)
  BY <1>1, <1>2, <1>3, <1>9, <1>10, <1>11, <1>12 DEF Takes
<1>14. QED
  BY <1>13

LEMMA OthersLose ==
  ASSUME RelayTypes,
         \/ \E l \in Link, f \in File : TimesOut(l, f)
         \/ \E j \in Joiner : ChannelCloses(j) \/ ChannelOpens(j)
         \/ UNCHANGED relayVars
  PROVE  Loses
<1>1. /\ wire \in [Link -> Seq(Frame)] /\ announced \in [Joiner -> File \cup {NoFile}]
      /\ entry \in [Link -> FileEntry] /\ open \subseteq Joiner
  BY DEF RelayTypes
<1>2. \A l \in Link : /\ entry[l].current = entry[l].current
                      /\ \A f \in File : entry[l].states[f] \in {entry[l].states[f], NoState}
  OBVIOUS
<1>3. ASSUME NEW l \in Link, NEW f \in File, TimesOut(l, f)
      PROVE  Loses
  <2>1. /\ entry' = [entry EXCEPT ![l].states[f] = NoState]
        /\ UNCHANGED <<open, wire, messages, sent, announced, mixed>>
    BY <1>3 DEF TimesOut
  <2>2. \A d \in Link : /\ entry[d].current \in File \cup {NoFile}
                        /\ entry[d].states \in [File -> Seq(ChunkFrame) \cup {NoState}]
    BY <1>1 DEF FileEntry
  <2>3. entry' \in [Link -> FileEntry]
    BY <1>1, <2>1, <2>2 DEF FileEntry
  <2>4. \A d \in Link : /\ entry'[d].current = entry[d].current
                        /\ \A g \in File : entry'[d].states[g] \in {entry[d].states[g], NoState}
    BY <1>1, <2>1, <2>2
  <2>5. QED
    BY <1>1, <2>1, <2>3, <2>4 DEF Loses
<1>4. ASSUME NEW j \in Joiner, ChannelCloses(j)
      PROVE  Loses
  <2>1. /\ open' = open \ {j}
        /\ wire' = [l \in Link |-> IF j \in {l[1], l[2]} THEN <<>> ELSE wire[l]]
        /\ announced' = [announced EXCEPT ![j] = NoFile]
        /\ UNCHANGED <<entry, messages, sent, mixed>>
    BY <1>4 DEF ChannelCloses
  <2>2. \A i \in Joiner : i # j => wire'[Down(i)] = wire[Down(i)] /\ announced'[i] = announced[i]
    <3>1. SUFFICES ASSUME NEW i \in Joiner, i # j
                   PROVE  wire'[Down(i)] = wire[Down(i)] /\ announced'[i] = announced[i]
      OBVIOUS
    <3>2. Down(i) \in Link /\ Down(i)[1] = Owner /\ Down(i)[2] = i /\ j # Owner
      BY Links
    <3>3. QED
      BY <1>1, <2>1, <3>1, <3>2
  <2>3. announced'[j] = NoFile /\ announced' \in [Joiner -> File \cup {NoFile}]
    BY <1>1, <2>1
  <2>4. wire' \in [Link -> Seq(Frame)] /\ \A l \in Link : wire'[l] = wire[l] \/ wire'[l] = <<>>
    BY <1>1, <2>1
  <2>5. \A i \in Joiner : i # j /\ i \in open => i \in open'
    BY <2>1
  <2>6. \A i \in Joiner :
          \/ announced'[i] = NoFile
          \/ /\ announced'[i] = announced[i] /\ wire'[Down(i)] = wire[Down(i)]
             /\ i \in open => i \in open'
    BY <2>2, <2>3, <2>5
  <2>7. entry' \in [Link -> FileEntry] /\ open' \subseteq Joiner
    BY <1>1, <2>1
  <2>8. QED
    BY <1>2, <2>1, <2>3, <2>4, <2>6, <2>7 DEF Loses
<1>5. ASSUME NEW j \in Joiner, ChannelOpens(j)
      PROVE  Loses
  BY <1>1, <1>2, <1>5 DEF ChannelOpens, Loses
<1>6. ASSUME UNCHANGED relayVars
      PROVE  Loses
  BY <1>1, <1>2, <1>6 DEF relayVars, Loses
<1>7. QED
  BY <1>3, <1>4, <1>5, <1>6

LEMMA StepsAre ==
  ASSUME RelayTypes, [RelayNext]_relayVars
  PROVE  \/ \E w, item, frames : Speaks(w, item, frames)
         \/ \E l, x, on : Takes(l, x, on)
         \/ Loses
<1>1. ASSUME NEW f \in File, HandleSendImage(f)
      PROVE  \E w, item, frames : Speaks(w, item, frames)
  BY <1>1, ImageIsSpoken
<1>2. ASSUME NEW w \in Writer, NEW id \in Stamp, OnSendMessage(w, id)
      PROVE  \E v, item, frames : Speaks(v, item, frames)
  BY <1>2, MessageIsSpoken
<1>3. ASSUME NEW s \in Window, NEW w \in Window, HandleIncomingData(s, w)
      PROVE  \E l, x, on : Takes(l, x, on)
  BY <1>3, FrameIsTaken
<1>4. QED
  BY <1>1, <1>2, <1>3, OthersLose DEF RelayNext

-----------------------------------------------------------------------------
(* The assembler.                                                          *)

LEMMA EntryAfterMeta ==
  ASSUME NEW e \in FileEntry, NEW x \in Frame, x.type = "FILE_META", NEW shown
  PROVE  /\ EntryAfter(e, x) \in FileEntry
         /\ EntryAfter(e, x).current = x.file
         /\ EntryAfter(e, x).states[x.file] = <<>>
         /\ MessagesAfter(shown, e, x) = shown
<1>1. x.file \in File
  BY Frames
<1>2. EntryAfter(e, x) = RegisterMeta(e, x.file) /\ MessagesAfter(shown, e, x) = shown
  BY DEF EntryAfter, MessagesAfter
<1>3. e.states \in [File -> Seq(ChunkFrame) \cup {NoState}]
  BY DEF FileEntry
<1>4. <<>> \in Seq(ChunkFrame)
  OBVIOUS
<1>5. RegisterMeta(e, x.file) \in FileEntry
  BY <1>1, <1>3, <1>4 DEF RegisterMeta, FileEntry
<1>6. RegisterMeta(e, x.file).current = x.file /\ RegisterMeta(e, x.file).states[x.file] = <<>>
  BY <1>1, <1>3 DEF RegisterMeta
<1>7. QED
  BY <1>2, <1>5, <1>6

LEMMA EntryAfterChat ==
  ASSUME NEW e \in FileEntry, NEW x \in Frame, x.type = "chat", NEW shown
  PROVE  /\ EntryAfter(e, x) = e
         /\ \/ MessagesAfter(shown, e, x) = shown
            \/ /\ MessagesAfter(shown, e, x) = Append(shown, x)
               /\ \A i \in 1..Len(shown) : shown[i].id # x.id
BY DEF EntryAfter, MessagesAfter

\* A chunk for an assembler that has, or has lost, its file.
LEMMA EntryAfterChunk ==
  ASSUME NEW e \in FileEntry, NEW x \in Frame, x.type = "chunk", NEW shown
  PROVE  /\ EntryAfter(e, x) \in FileEntry
         /\ \/ /\ Completes(e) /\ e.current \in File
               /\ e.states[e.current] \in Seq(ChunkFrame)
               /\ EntryAfter(e, x).current = NoFile
               /\ MessagesAfter(shown, e, x) = Append(shown, Image(e.current, Pushed(e, x)))
            \/ /\ ~Completes(e) /\ Receiving(e)
               /\ e.current \in File /\ e.states[e.current] \in Seq(ChunkFrame)
               /\ EntryAfter(e, x).current = e.current
               /\ EntryAfter(e, x).states[e.current] = Pushed(e, x)
               /\ MessagesAfter(shown, e, x) = shown
            \/ /\ ~Receiving(e) /\ EntryAfter(e, x) = e /\ MessagesAfter(shown, e, x) = shown
<1>1. /\ e.current \in File \cup {NoFile}
      /\ e.states \in [File -> Seq(ChunkFrame) \cup {NoState}]
  BY DEF FileEntry
<1>2. x \in ChunkFrame
  BY Frames DEF Chunk, ChunkFrame
<1>3. CASE ~Receiving(e)
  BY <1>3 DEF EntryAfter, MessagesAfter, Completes
<1>4. CASE Receiving(e)
  <2>1. e.current \in File /\ e.states[e.current] \in Seq(ChunkFrame)
    BY <1>1, <1>4 DEF Receiving
  <2>2. Pushed(e, x) \in Seq(ChunkFrame)
    BY <1>2, <2>1 DEF Pushed
  <2>3. CASE Completes(e)
    <3>1. EntryAfter(e, x) = [current |-> NoFile, states |-> [e.states EXCEPT ![e.current] = NoState]]
      BY <2>3 DEF EntryAfter
    <3>2. [e.states EXCEPT ![e.current] = NoState] \in [File -> Seq(ChunkFrame) \cup {NoState}]
      BY <1>1, <2>1
    <3>3. EntryAfter(e, x) \in FileEntry /\ EntryAfter(e, x).current = NoFile
      BY <3>1, <3>2 DEF FileEntry
    <3>4. MessagesAfter(shown, e, x) = Append(shown, Image(e.current, Pushed(e, x)))
      BY <2>3 DEF MessagesAfter
    <3>5. QED
      BY <2>1, <2>3, <3>3, <3>4
  <2>4. CASE ~Completes(e)
    <3>1. EntryAfter(e, x) = [e EXCEPT !.states[e.current] = Pushed(e, x)]
      BY <1>4, <2>4 DEF EntryAfter
    <3>2. [e.states EXCEPT ![e.current] = Pushed(e, x)] \in [File -> Seq(ChunkFrame) \cup {NoState}]
      BY <1>1, <2>1, <2>2
    <3>3. e = [current |-> e.current, states |-> e.states]
      BY DEF FileEntry
    <3> HIDE DEF Pushed
    <3>4. [e EXCEPT !.states[e.current] = Pushed(e, x)]
            = [current |-> e.current, states |-> [e.states EXCEPT ![e.current] = Pushed(e, x)]]
      BY <3>3
    <3>5. /\ EntryAfter(e, x) \in FileEntry
          /\ EntryAfter(e, x).current = e.current
          /\ EntryAfter(e, x).states[e.current] = Pushed(e, x)
      BY <1>1, <2>1, <3>1, <3>2, <3>4 DEF FileEntry
    <3>6. MessagesAfter(shown, e, x) = shown
      BY <2>4 DEF MessagesAfter
    <3>7. QED
      BY <1>4, <2>1, <2>4, <3>5, <3>6
  <2>5. QED
    BY <2>3, <2>4
<1>5. QED
  BY <1>3, <1>4

LEMMA OneChunkMore ==
  ASSUME NEW f \in File, NEW n \in Nat, n > 0
  PROVE  /\ FirstChunks(f, n - 1) \in Seq(ChunkFrame) /\ Len(FirstChunks(f, n - 1)) = n - 1
         /\ Append(FirstChunks(f, n - 1), Chunk(f, n)) = FirstChunks(f, n)
<1>1. \A m \in Nat : Chunk(f, m) \in ChunkFrame
  BY DEF Chunk, ChunkFrame
<1> HIDE DEF ChunkFrame, Chunk
<1>2. n - 1 \in Nat /\ FirstChunks(f, n - 1) \in [1..(n - 1) -> ChunkFrame]
  BY <1>1 DEF FirstChunks
<1> DEFINE s == FirstChunks(f, n - 1)
<1>3. s \in Seq(ChunkFrame) /\ Len(s) = n - 1
  BY <1>2
<1>4. \A i \in 1..(n - 1) : s[i] = Chunk(f, i)
  BY DEF FirstChunks
<1> DEFINE t == Append(s, Chunk(f, n))
           u == FirstChunks(f, n)
<1> HIDE DEF s
<1>5. /\ t \in Seq(ChunkFrame) /\ Len(t) = n /\ t[n] = Chunk(f, n)
      /\ \A i \in 1..(n - 1) : t[i] = Chunk(f, i)
  BY <1>1, <1>3, <1>4
<1>6. \A i \in 1..n : t[i] = Chunk(f, i)
  <2>1. \A i \in 1..n : i = n \/ i \in 1..(n - 1)
    OBVIOUS
  <2>2. QED
    BY <1>5, <2>1
<1>7. u = [i \in 1..n |-> Chunk(f, i)]
  BY DEF FirstChunks
<1> HIDE DEF t, u
<1>8. t = [i \in 1..n |-> t[i]]
  BY <1>5
<1>9. t = u
  BY <1>6, <1>7, <1>8
<1>10. QED
  BY <1>3, <1>9 DEF s, t, u

-----------------------------------------------------------------------------
(* Types, and where frames are after a step.                               *)

LEMMA Queues ==
  ASSUME RelayTypes, NEW l \in Link
  PROVE  /\ wire[l] \in Seq(Frame) /\ Len(wire[l]) \in Nat
         /\ \A i \in 1..Len(wire[l]) : wire[l][i] \in Frame
BY DEF RelayTypes

LEMMA Panes ==
  ASSUME RelayTypes, NEW w \in Window
  PROVE  /\ messages[w] \in Seq(Message) /\ Len(messages[w]) \in Nat
         /\ \A i \in 1..Len(messages[w]) : messages[w][i] \in Message
         /\ sent[w] \in Seq(Message) /\ Len(sent[w]) \in Nat
BY DEF RelayTypes

LEMMA SpokenTypes ==
  ASSUME RelayTypes, NEW w, NEW item, NEW frames, Speaks(w, item, frames)
  PROVE  RelayTypes'
<1>1. /\ w \in Window /\ item \in Message /\ frames \in Seq(Frame)
      /\ sent' = [sent EXCEPT ![w] = Append(@, item)]
      /\ messages' = [messages EXCEPT ![w] = Append(@, item)]
      /\ wire' = [l \in Link |-> IF l[1] = w /\ IsOpen(l) THEN wire[l] \o frames ELSE wire[l]]
      /\ announced' = [j \in Joiner |-> IF w = Owner /\ j \in open /\ item.type = "image"
                                          THEN item.id ELSE announced[j]]
      /\ UNCHANGED <<open, entry, mixed>>
  BY DEF Speaks
<1>2. item.type = "image" => item.id \in File
  BY <1>1, Messages
<1> HIDE DEF Frame, Message, FileEntry
<1>3. \A l \in Link : wire[l] \o frames \in Seq(Frame)
  BY <1>1, Queues
<1>4. wire' \in [Link -> Seq(Frame)]
  BY <1>1, <1>3, Queues
<1>5. /\ sent' \in [Window -> Seq(Message)] /\ messages' \in [Window -> Seq(Message)]
  BY <1>1 DEF RelayTypes
<1>6. announced' \in [Joiner -> File \cup {NoFile}]
  BY <1>1, <1>2 DEF RelayTypes
<1>7. QED
  BY <1>1, <1>4, <1>5, <1>6 DEF RelayTypes

LEMMA SpokenWire ==
  ASSUME RelayTypes, NEW w, NEW item, NEW frames, Speaks(w, item, frames), NEW l \in Link
  PROVE  /\ l[1] = w /\ IsOpen(l) => Len(wire'[l]) = Len(wire[l]) + Len(frames)
         /\ ~(l[1] = w /\ IsOpen(l)) => wire'[l] = wire[l]
         /\ 1..Len(wire[l]) \subseteq 1..Len(wire'[l])
         /\ \A i \in 1..Len(wire[l]) : wire'[l][i] = wire[l][i]
         /\ \A i \in 1..Len(wire'[l]) :
              \/ i \in 1..Len(wire[l])
              \/ /\ l[1] = w /\ IsOpen(l) /\ i - Len(wire[l]) \in 1..Len(frames)
                 /\ wire'[l][i] = frames[i - Len(wire[l])]
<1>1. /\ frames \in Seq(Frame)
      /\ wire'[l] = IF l[1] = w /\ IsOpen(l) THEN wire[l] \o frames ELSE wire[l]
  BY DEF Speaks
<1>2. wire[l] \in Seq(Frame)
  BY Queues
<1> HIDE DEF Frame
<1>3. CASE l[1] = w /\ IsOpen(l)
  <2> DEFINE q == wire[l]
             r == wire'[l]
  <2>1. r = q \o frames /\ q \in Seq(Frame)
    BY <1>1, <1>2, <1>3
  <2> HIDE DEF q, r
  <2>2. /\ Len(q) \in Nat /\ Len(frames) \in Nat /\ Len(r) = Len(q) + Len(frames)
        /\ \A i \in 1..Len(q) : r[i] = q[i]
    BY <1>1, <2>1
  <2>3. \A i \in 1..Len(r) : i > Len(q) => r[i] = frames[i - Len(q)]
    BY <1>1, <2>1
  <2>4. \A i \in 1..Len(r) : i \in 1..Len(q) \/ (i > Len(q) /\ i - Len(q) \in 1..Len(frames))
    BY <2>2
  <2>5. QED
    BY <1>3, <2>2, <2>3, <2>4 DEF q, r
<1>4. CASE ~(l[1] = w /\ IsOpen(l))
  BY <1>1, <1>4
<1>5. QED
  BY <1>3, <1>4

LEMMA TakenWire ==
  ASSUME RelayTypes, NEW l, NEW x, NEW on, Takes(l, x, on), NEW d \in Link
  PROVE  /\ Len(wire'[d]) \in Nat
         /\ d = l => /\ wire'[d] = Tail(wire[l]) /\ Len(wire'[d]) = Len(wire[l]) - 1
                     /\ wire'[d] \in Seq(Frame)
                     /\ \A i \in 1..Len(wire'[d]) : /\ i + 1 \in 1..Len(wire[l])
                                                    /\ wire'[d][i] = wire[l][i + 1]
         /\ d # l /\ d[1] = Owner /\ d[2] \in on =>
              /\ Len(wire'[d]) = Len(wire[d]) + 1
              /\ wire'[d] \in Seq(Frame)
              /\ wire'[d][Len(wire[d]) + 1] = x
              /\ \A i \in 1..Len(wire[d]) : wire'[d][i] = wire[d][i]
              /\ \A i \in 1..Len(wire'[d]) : i \in 1..Len(wire[d]) \/ i = Len(wire[d]) + 1
         /\ d # l /\ ~(d[1] = Owner /\ d[2] \in on) => wire'[d] = wire[d]
<1>1. /\ l \in Link /\ wire[l] # <<>> /\ x = wire[l][1]
      /\ wire' = [e \in Link |-> IF e = l THEN Tail(wire[e])
                                 ELSE IF e[1] = Owner /\ e[2] \in on THEN Append(wire[e], x)
                                 ELSE wire[e]]
  BY DEF Takes
<1>2. wire[d] \in Seq(Frame) /\ wire[l] \in Seq(Frame)
  BY <1>1, Queues
<1> HIDE DEF Frame
<1>3. x \in Frame /\ Len(wire[l]) \in Nat /\ Len(wire[l]) > 0
  BY <1>1, <1>2
<1>4. CASE d = l
  BY <1>1, <1>2, <1>4
<1>5. CASE d # l /\ d[1] = Owner /\ d[2] \in on
  <2> DEFINE q == wire[d]
             r == wire'[d]
  <2>1. r = Append(q, x) /\ q \in Seq(Frame)
    BY <1>1, <1>2, <1>5
  <2> HIDE DEF q, r
  <2>2. /\ Len(q) \in Nat /\ Len(r) = Len(q) + 1 /\ r \in Seq(Frame)
        /\ r[Len(q) + 1] = x /\ \A i \in 1..Len(q) : r[i] = q[i]
    BY <1>3, <2>1
  <2>3. \A i \in 1..Len(r) : i \in 1..Len(q) \/ i = Len(q) + 1
    BY <2>2
  <2>4. QED
    BY <1>5, <2>2, <2>3 DEF q, r
<1>6. CASE d # l /\ ~(d[1] = Owner /\ d[2] \in on)
  BY <1>1, <1>2, <1>6
<1>7. QED
  BY <1>4, <1>5, <1>6

LEMMA TakenFrame ==
  ASSUME RelayTypes, NEW l, NEW x, NEW on, Takes(l, x, on)
  PROVE  /\ l \in Link /\ l[2] \in Window /\ x \in Frame /\ x = wire[l][1] /\ 1 \in 1..Len(wire[l])
         /\ entry[l] \in FileEntry
         /\ entry'[l] = EntryAfter(entry[l], x) /\ EntryAfter(entry[l], x) \in FileEntry
         /\ messages'[l[2]] = MessagesAfter(messages[l[2]], entry[l], x)
         /\ \A d \in Link : d # l => entry'[d] = entry[d]
         /\ \A w \in Window : w # l[2] => messages'[w] = messages[w]
<1>1. /\ l \in Link /\ wire[l] # <<>> /\ x = wire[l][1]
      /\ entry' = [entry EXCEPT ![l] = EntryAfter(@, x)]
      /\ messages' = [messages EXCEPT ![l[2]] = MessagesAfter(@, entry[l], x)]
  BY DEF Takes
<1>2. l[2] \in Window
  BY <1>1, Links
<1>3. 1 \in 1..Len(wire[l]) /\ x \in Frame
  BY <1>1, Queues
<1>4. entry[l] \in FileEntry
  BY <1>1 DEF RelayTypes
<1>5. EntryAfter(entry[l], x) \in FileEntry
  <2>1. CASE x.type = "FILE_META"
    BY <1>3, <1>4, <2>1, EntryAfterMeta
  <2>2. CASE x.type = "chat"
    BY <1>3, <1>4, <2>2, EntryAfterChat
  <2>3. CASE x.type = "chunk"
    BY <1>3, <1>4, <2>3, EntryAfterChunk
  <2>4. QED
    BY <1>3, <2>1, <2>2, <2>3, Frames
<1>6. QED
  BY <1>1, <1>2, <1>3, <1>4, <1>5 DEF RelayTypes

\* What a frame adds to the lines a window shows.
Shows(e, x, m) ==
  \/ /\ x.type = "chat" /\ m = x
  \/ /\ x.type = "chunk" /\ Completes(e) /\ e.current \in File
     /\ m = Image(e.current, Pushed(e, x))

LEMMA TakenPane ==
  ASSUME RelayTypes, NEW l, NEW x, NEW on, Takes(l, x, on)
  PROVE  \/ messages' = messages
         \/ \E m \in Message :
              /\ Shows(entry[l], x, m)
              /\ messages'[l[2]] = Append(messages[l[2]], m)
              /\ x.type = "chat" => \A i \in 1..Len(messages[l[2]]) : messages[l[2]][i].id # x.id
<1>1. /\ l[2] \in Window /\ x \in Frame /\ entry[l] \in FileEntry
      /\ messages'[l[2]] = MessagesAfter(messages[l[2]], entry[l], x)
  BY TakenFrame
<1>2. messages' = [messages EXCEPT ![l[2]] = MessagesAfter(@, entry[l], x)]
  BY DEF Takes
<1>3. CASE MessagesAfter(messages[l[2]], entry[l], x) = messages[l[2]]
  <2>1. messages \in [Window -> Seq(Message)]
    BY DEF RelayTypes
  <2>2. QED
    BY <1>1, <1>2, <1>3, <2>1
<1>4. CASE x.type = "chat"
  <2>1. x \in Message
    BY <1>1, <1>4, Frames DEF Message
  <2>2. QED
    BY <1>1, <1>3, <1>4, <2>1, EntryAfterChat DEF Shows
<1>5. CASE x.type = "chunk"
  <2>1. CASE /\ Completes(entry[l]) /\ entry[l].current \in File
             /\ entry[l].states[entry[l].current] \in Seq(ChunkFrame)
             /\ messages'[l[2]] = Append(messages[l[2]], Image(entry[l].current, Pushed(entry[l], x)))
    <3>1. Pushed(entry[l], x) \in Seq(ChunkFrame)
      <4>1. x \in ChunkFrame
        BY <1>1, <1>5, Frames DEF Chunk, ChunkFrame
      <4>2. QED
        BY <2>1, <4>1 DEF Pushed
    <3>2. SenderOf[entry[l].current] \in Window
      BY <2>1, RelayAssumption DEF Window
    <3>3. Image(entry[l].current, Pushed(entry[l], x)) \in Message
      BY <2>1, <3>1, <3>2 DEF Image, Message
    <3>4. QED
      BY <1>5, <2>1, <3>3 DEF Shows
  <2>2. QED
    BY <1>1, <1>3, <1>5, <2>1, EntryAfterChunk
<1>6. CASE x.type = "FILE_META"
  BY <1>1, <1>3, <1>6, EntryAfterMeta
<1>7. QED
  BY <1>1, <1>4, <1>5, <1>6, Frames

LEMMA TakenTypes ==
  ASSUME RelayTypes, NEW l, NEW x, NEW on, Takes(l, x, on)
  PROVE  RelayTypes'
<1>1. /\ on \subseteq open
      /\ wire' = [d \in Link |-> IF d = l THEN Tail(wire[d])
                                 ELSE IF d[1] = Owner /\ d[2] \in on THEN Append(wire[d], x)
                                 ELSE wire[d]]
      /\ entry' = [entry EXCEPT ![l] = EntryAfter(@, x)]
      /\ messages' = [messages EXCEPT ![l[2]] = MessagesAfter(@, entry[l], x)]
      /\ announced' = [j \in Joiner |-> IF j \in on /\ x.type = "FILE_META"
                                          THEN x.file ELSE announced[j]]
      /\ mixed' = mixed \cup {j \in on : x.type = "chunk" /\ x.file # announced[j]}
      /\ UNCHANGED <<open, sent>>
  BY DEF Takes
<1>2. /\ l \in Link /\ x \in Frame /\ l[2] \in Window
      /\ EntryAfter(entry[l], x) \in FileEntry
  BY TakenFrame
<1>3. x.type = "FILE_META" => x.file \in File
  BY <1>2, Frames
<1> HIDE DEF Frame, Message, FileEntry
<1>4. \A d \in Link : wire'[d] \in Seq(Frame)
  BY TakenWire, Queues
<1>5. wire' \in [Link -> Seq(Frame)]
  <2>1. wire' = [d \in Link |-> wire'[d]]
    BY <1>1
  <2>2. QED
    BY <1>4, <2>1
<1>6. entry' \in [Link -> FileEntry]
  BY <1>1, <1>2 DEF RelayTypes
<1>7. messages' \in [Window -> Seq(Message)]
  <2>1. CASE messages' = messages
    BY <2>1 DEF RelayTypes
  <2>2. CASE \E m \in Message : messages'[l[2]] = Append(messages[l[2]], m)
    <3>1. messages'[l[2]] \in Seq(Message)
      BY <1>2, <2>2, Panes
    <3>2. \A w \in Window : w # l[2] => messages'[w] \in Seq(Message)
      BY <1>1, Panes DEF RelayTypes
    <3>3. messages' = [w \in Window |-> messages'[w]]
      BY <1>1 DEF RelayTypes
    <3>4. QED
      BY <3>1, <3>2, <3>3
  <2>3. QED
    BY <2>1, <2>2, TakenPane
<1>8. announced' \in [Joiner -> File \cup {NoFile}]
  BY <1>1, <1>3 DEF RelayTypes
<1>9. mixed' \subseteq Joiner
  BY <1>1 DEF RelayTypes
<1>10. QED
  BY <1>1, <1>5, <1>6, <1>7, <1>8, <1>9 DEF RelayTypes

LEMMA LostTypes ==
  ASSUME RelayTypes, Loses
  PROVE  RelayTypes'
BY DEF Loses, RelayTypes

-----------------------------------------------------------------------------
(* Nothing is made up.                                                     *)

LEMMA SpokenLogs ==
  ASSUME RelayTypes, NEW w, NEW item, NEW frames, Speaks(w, item, frames)
  PROVE  /\ w \in Window /\ item \in Message
         /\ Recorded(sent'[w], WasSent(item))
         /\ \A s \in Window : \A a : Recorded(sent[s], a) => Recorded(sent'[s], a)
         /\ \A a : Recorded(sent[w], a) => Earlier(sent'[w], a, WasSent(item))
         /\ \A s \in Window : \A a, b :
              Recorded(sent[s], a) /\ Recorded(sent[s], b) /\ Earlier(sent[s], a, b) =>
                Earlier(sent'[s], a, b)
<1>1. /\ w \in Window /\ item \in Message /\ ~Recorded(sent[w], WasSent(item))
      /\ sent' = [sent EXCEPT ![w] = Append(@, item)]
  BY DEF Speaks
<1>2. sent[w] \in Seq(Message)
  BY <1>1, Panes
<1>3. sent'[w] = Append(sent[w], item) /\ \A s \in Window : s # w => sent'[s] = sent[s]
  BY <1>1 DEF RelayTypes
<1>4. /\ Recorded(Append(sent[w], item), WasSent(item))
      /\ \A a : Recorded(sent[w], a) => Recorded(Append(sent[w], item), a)
      /\ \A a : Recorded(sent[w], a) => Earlier(Append(sent[w], item), a, WasSent(item))
      /\ \A a, b : Recorded(sent[w], a) /\ Recorded(sent[w], b) /\ Earlier(sent[w], a, b) =>
           Earlier(Append(sent[w], item), a, b)
  BY <1>1, <1>2, GrownLog
<1>5. QED
  BY <1>1, <1>3, <1>4

LEMMA SpokenGenuine ==
  ASSUME RelayTypes, NothingIsMadeUp, NEW w, NEW item, NEW frames, Speaks(w, item, frames)
  PROVE  NothingIsMadeUp'
<1>1. /\ w \in Window /\ item \in Message /\ item.from = w
      /\ item.type = "image" => SenderOf[item.id] = w
      /\ ~Recorded(sent[w], WasSent(item))
      /\ \A i \in 1..Len(frames) :
           /\ Sender(frames[i]) = w /\ Named(frames[i]) = WasSent(item)
           /\ frames[i].type = "chunk" => frames[i].number \in 1..TotalChunks[frames[i].file]
      /\ sent' = [sent EXCEPT ![w] = Append(@, item)]
      /\ messages' = [messages EXCEPT ![w] = Append(@, item)]
      /\ UNCHANGED <<open, entry>>
  BY DEF Speaks
<1>2. /\ Recorded(sent'[w], WasSent(item))
      /\ \A s \in Window : \A a : Recorded(sent[s], a) => Recorded(sent'[s], a)
  BY SpokenLogs
<1>3. \A s \in Window : \A n, m \in 1..Len(sent'[s]) :
        WasSent(sent'[s][n]) = WasSent(sent'[s][m]) => n = m
  <2>1. SUFFICES ASSUME NEW s \in Window, NEW n \in 1..Len(sent'[s]), NEW m \in 1..Len(sent'[s]),
                        WasSent(sent'[s][n]) = WasSent(sent'[s][m])
                 PROVE  n = m
    OBVIOUS
  <2>2. CASE s # w
    <3>1. sent'[s] = sent[s]
      BY <1>1, <2>2 DEF RelayTypes
    <3>2. QED
      BY <2>1, <3>1 DEF NothingIsMadeUp
  <2>3. CASE s = w
    <3> DEFINE log == sent[w]
               grown == sent'[w]
    <3>1. grown = Append(log, item) /\ log \in Seq(Message)
      BY <1>1 DEF RelayTypes
    <3>2. /\ \A i, k \in 1..Len(log) : WasSent(log[i]) = WasSent(log[k]) => i = k
          /\ \A i \in 1..Len(log) : WasSent(log[i]) # WasSent(item)
      BY <1>1 DEF NothingIsMadeUp, Recorded
    <3> HIDE DEF log, grown, WasSent, Message
    <3>3. /\ Len(log) \in Nat /\ Len(grown) = Len(log) + 1 /\ grown[Len(log) + 1] = item
          /\ \A i \in 1..Len(log) : grown[i] = log[i]
      BY <3>1
    <3>4. \A i \in 1..Len(grown) : i \in 1..Len(log) \/ i = Len(log) + 1
      BY <3>3
    <3>5. \A i, k \in 1..Len(grown) : WasSent(grown[i]) = WasSent(grown[k]) => i = k
      BY <3>2, <3>3, <3>4
    <3>6. QED
      BY <2>1, <2>3, <3>5 DEF grown
  <2>4. QED
    BY <2>2, <2>3
<1>4. ASSUME NEW l \in Link, NEW i \in 1..Len(wire'[l])
      PROVE  Genuine(sent', l, wire'[l][i])
  <2>1. CASE i \in 1..Len(wire[l])
    <3> DEFINE x == wire[l][i]
    <3>1. wire'[l][i] = x
      BY <2>1, SpokenWire
    <3>2. x \in Frame /\ Genuine(sent, l, x)
      BY <2>1, Queues DEF NothingIsMadeUp
    <3> HIDE DEF x
    <3>3. Sender(x) \in Window
      BY <3>2, Frames
    <3>4. QED
      BY <1>2, <3>1, <3>2, <3>3 DEF Genuine
  <2>2. CASE l[1] = w /\ i - Len(wire[l]) \in 1..Len(frames) /\ wire'[l][i] = frames[i - Len(wire[l])]
    BY <1>1, <1>2, <2>2, Links DEF Genuine
  <2>3. QED
    BY <2>1, <2>2, SpokenWire
<1>5. ASSUME NEW v \in Window, NEW i \in 1..Len(messages'[v])
      PROVE  /\ Recorded(sent'[messages'[v][i].from], WasSent(messages'[v][i]))
             /\ messages'[v][i].type = "image" =>
                  messages'[v][i].from = SenderOf[messages'[v][i].id]
  <2>1. CASE i \in 1..Len(messages[v]) /\ messages'[v][i] = messages[v][i]
    <3>1. messages[v][i].from \in Window
      BY <2>1, Panes, Messages
    <3>2. QED
      BY <1>2, <2>1, <3>1 DEF NothingIsMadeUp
  <2>2. CASE v = w /\ messages'[v][i] = item
    BY <1>1, <1>2, <2>2
  <2>3. QED
    <3>1. messages[v] \in Seq(Message)
      BY Panes
    <3>2. messages'[v] = IF v = w THEN Append(messages[v], item) ELSE messages[v]
      BY <1>1 DEF RelayTypes
    <3> HIDE DEF Message
    <3>3. QED
      BY <1>1, <2>1, <2>2, <3>1, <3>2
<1>6. ASSUME NEW j \in Joiner, announced'[j] # NoFile
      PROVE  j \in open' /\ Known(sent', announced'[j]) /\ SenderOf[announced'[j]] # j
  <2>1. announced'[j] = IF w = Owner /\ j \in open /\ item.type = "image"
                          THEN item.id ELSE announced[j]
    BY DEF Speaks
  <2>2. CASE w = Owner /\ j \in open /\ item.type = "image"
    BY <1>1, <1>2, <2>1, <2>2, Messages, Links DEF Known
  <2>3. CASE ~(w = Owner /\ j \in open /\ item.type = "image")
    <3>1. announced[j] \in File
      BY <1>6, <2>1, <2>3 DEF RelayTypes
    <3>2. SenderOf[announced[j]] \in Window
      BY <3>1, RelayAssumption DEF Window
    <3>3. QED
      BY <1>1, <1>2, <1>6, <2>1, <2>3, <3>2 DEF NothingIsMadeUp, Known
  <2>4. QED
    BY <2>2, <2>3
<1>7. ASSUME NEW l \in Link, entry[l].current # NoFile
      PROVE  Known(sent', entry[l].current)
  <2>1. entry[l].current \in File
    BY <1>7 DEF RelayTypes, FileEntry
  <2>2. SenderOf[entry[l].current] \in Window
    BY <2>1, RelayAssumption DEF Window
  <2>3. QED
    BY <1>2, <1>7, <2>2 DEF NothingIsMadeUp, Known
<1>8. QED
  BY <1>1, <1>3, <1>4, <1>5, <1>6, <1>7 DEF NothingIsMadeUp

LEMMA TakenGenuine ==
  ASSUME RelayTypes, NothingIsMadeUp, NEW l, NEW x, NEW on, Takes(l, x, on)
  PROVE  NothingIsMadeUp'
<1>1. /\ on \subseteq open /\ UNCHANGED <<open, sent>>
      /\ l[2] # Owner => on = {}
      /\ l[2] = Owner => on = open \ {l[1]}
      /\ announced' = [j \in Joiner |-> IF j \in on /\ x.type = "FILE_META"
                                          THEN x.file ELSE announced[j]]
  BY DEF Takes
<1>2. l \in Link /\ l[2] \in Window /\ x \in Frame /\ entry[l] \in FileEntry
  BY TakenFrame
<1>3. Genuine(sent, l, x)
  BY TakenFrame DEF NothingIsMadeUp
<1>4. x.type # "chat" => x.file \in File /\ Known(sent, x.file) /\ Sender(x) = SenderOf[x.file]
  BY <1>2, <1>3, Frames DEF Genuine, Known, Sender, Named
<1>5. ASSUME NEW d \in Link, NEW i \in 1..Len(wire'[d])
      PROVE  Genuine(sent, d, wire'[d][i])
  <2>1. CASE d = l
    BY <2>1, TakenWire DEF NothingIsMadeUp
  <2>2. CASE d # l /\ d[1] = Owner /\ d[2] \in on
    <3>1. (i \in 1..Len(wire[d]) /\ wire'[d][i] = wire[d][i]) \/ wire'[d][i] = x
      BY <2>2, TakenWire
    <3>2. Genuine(sent, d, x)
      <4>1. l[2] = Owner /\ l[1] \notin on
        BY <1>1, <2>2
      <4>2. Sender(x) = l[1]
        BY <1>3, <4>1 DEF Genuine
      <4>3. Sender(x) # d[2] /\ d[2] # Owner
        BY <2>2, <4>1, <4>2, Links
      <4>4. QED
        BY <1>3, <4>3 DEF Genuine
    <3>3. QED
      BY <3>1, <3>2 DEF NothingIsMadeUp
  <2>3. CASE d # l /\ ~(d[1] = Owner /\ d[2] \in on)
    BY <2>3, TakenWire DEF NothingIsMadeUp
  <2>4. QED
    BY <2>1, <2>2, <2>3
<1>6. ASSUME NEW w \in Window, NEW i \in 1..Len(messages'[w])
      PROVE  /\ Recorded(sent[messages'[w][i].from], WasSent(messages'[w][i]))
             /\ messages'[w][i].type = "image" =>
                  messages'[w][i].from = SenderOf[messages'[w][i].id]
  <2>1. CASE i \in 1..Len(messages[w]) /\ messages'[w][i] = messages[w][i]
    BY <2>1 DEF NothingIsMadeUp
  <2>2. ASSUME NEW m \in Message, Shows(entry[l], x, m), messages'[w][i] = m
        PROVE  /\ Recorded(sent[m.from], WasSent(m))
               /\ m.type = "image" => m.from = SenderOf[m.id]
    <3>1. CASE x.type = "chat" /\ m = x
      BY <1>3, <3>1 DEF Genuine, Sender, Named, WasSent
    <3>2. CASE /\ Completes(entry[l]) /\ entry[l].current \in File
               /\ m = Image(entry[l].current, Pushed(entry[l], x))
      <4>1. entry[l].current # NoFile
        BY <3>2 DEF Completes, Receiving
      <4>2. /\ m.type = "image" /\ m.id = entry[l].current
            /\ m.from = SenderOf[entry[l].current]
        BY <3>2 DEF Image
      <4>3. QED
        BY <1>2, <4>1, <4>2 DEF NothingIsMadeUp, Known, WasSent
    <3>3. QED
      BY <2>2, <3>1, <3>2 DEF Shows
  <2>3. QED
    <3>1. CASE w # l[2] \/ messages' = messages
      BY <2>1, <3>1, TakenFrame
    <3>2. ASSUME NEW m \in Message, Shows(entry[l], x, m), w = l[2],
                 messages'[l[2]] = Append(messages[l[2]], m)
          PROVE  \/ i \in 1..Len(messages[w]) /\ messages'[w][i] = messages[w][i]
                 \/ messages'[w][i] = m
      BY <3>2, Panes
    <3>3. QED
      BY <2>1, <2>2, <3>1, <3>2, TakenPane
<1>7. ASSUME NEW j \in Joiner, announced'[j] # NoFile
      PROVE  j \in open /\ Known(sent, announced'[j]) /\ SenderOf[announced'[j]] # j
  <2>1. CASE j \in on /\ x.type = "FILE_META"
    <3>1. SenderOf[x.file] = l[1] /\ l[1] \notin on
      BY <1>1, <1>3, <1>4, <2>1 DEF Genuine
    <3>2. QED
      BY <1>1, <1>4, <2>1, <3>1
  <2>2. CASE ~(j \in on /\ x.type = "FILE_META")
    BY <1>1, <1>7, <2>2 DEF NothingIsMadeUp
  <2>3. QED
    BY <2>1, <2>2
<1>8. ASSUME NEW d \in Link, entry'[d].current # NoFile
      PROVE  /\ Known(sent, entry'[d].current)
             /\ SenderOf[entry'[d].current] # d[2]
             /\ d[2] = Owner => SenderOf[entry'[d].current] = d[1]
  <2>1. CASE entry'[d].current = entry[d].current
    BY <1>8, <2>1 DEF NothingIsMadeUp
  <2>2. CASE d = l /\ x.type = "FILE_META" /\ entry'[d].current = x.file
    BY <1>3, <1>4, <2>2 DEF Genuine
  <2>3. QED
    <3>1. CASE d # l
      BY <2>1, <3>1, TakenFrame
    <3>2. CASE d = l /\ x.type = "FILE_META"
      BY <1>2, <2>2, <3>2, TakenFrame, EntryAfterMeta
    <3>3. CASE d = l /\ x.type = "chat"
      BY <1>2, <2>1, <3>3, TakenFrame, EntryAfterChat
    <3>4. CASE d = l /\ x.type = "chunk"
      <4>1. entry'[l] = EntryAfter(entry[l], x)
        BY TakenFrame
      <4>2. EntryAfter(entry[l], x).current \in {NoFile, entry[l].current}
        BY <1>2, <3>4, EntryAfterChunk
      <4>3. QED
        BY <1>8, <2>1, <3>4, <4>1, <4>2
    <3>5. QED
      BY <1>2, <3>1, <3>2, <3>3, <3>4, Frames
<1>9. QED
  BY <1>1, <1>5, <1>6, <1>7, <1>8 DEF NothingIsMadeUp

LEMMA LostGenuine ==
  ASSUME RelayTypes, NothingIsMadeUp, Loses
  PROVE  NothingIsMadeUp'
<1>1. /\ \A l \in Link : wire'[l] = wire[l] \/ wire'[l] = <<>>
      /\ \A j \in Joiner : announced'[j] # NoFile =>
           announced'[j] = announced[j] /\ (j \in open => j \in open')
      /\ \A l \in Link : entry'[l].current = entry[l].current
      /\ UNCHANGED <<messages, sent>>
  BY DEF Loses
<1>2. \A l \in Link : \A i \in 1..Len(wire'[l]) : Genuine(sent, l, wire'[l][i])
  BY <1>1 DEF NothingIsMadeUp
<1>3. QED
  BY <1>1, <1>2 DEF NothingIsMadeUp

-----------------------------------------------------------------------------
(* The order on the channels.                                              *)

LEMMA PrecedesKept ==
  ASSUME RelayTypes, NEW w, NEW item, NEW frames, Speaks(w, item, frames),
         NEW s \in Window, NEW x, NEW y,
         Recorded(sent[s], Named(x)), Recorded(sent[s], Named(y)), Precedes(sent[s], x, y)
  PROVE  Precedes(sent'[s], x, y)
BY SpokenLogs DEF Precedes

LEMMA SpokenWireInOrder ==
  ASSUME RelayTypes, NothingIsMadeUp, WireInOrder,
         NEW w, NEW item, NEW frames, Speaks(w, item, frames)
  PROVE  WireInOrder'
<1>1. /\ w \in Window
      /\ \A a : Recorded(sent[w], a) => Earlier(sent'[w], a, WasSent(item))
  BY SpokenLogs
<1>2. /\ \A i \in 1..Len(frames) : Sender(frames[i]) = w /\ Named(frames[i]) = WasSent(item)
      /\ \A i, k \in 1..Len(frames) : i < k =>
           /\ frames[i].type # "chat" /\ frames[k].type # "chat"
           /\ frames[i].file = frames[k].file /\ Number(frames[i]) < Number(frames[k])
  BY DEF Speaks
<1>3. \A l \in Link : \A i \in 1..Len(wire[l]) :
        /\ Sender(wire[l][i]) \in Window
        /\ Recorded(sent[Sender(wire[l][i])], Named(wire[l][i]))
  BY Queues, Frames DEF NothingIsMadeUp, Genuine
<1>4. ASSUME NEW l \in Link, NEW i \in 1..Len(wire'[l]), NEW k \in 1..Len(wire'[l]), i < k,
             Sender(wire'[l][i]) = Sender(wire'[l][k])
      PROVE  Precedes(sent'[Sender(wire'[l][i])], wire'[l][i], wire'[l][k])
  <2>1. Len(wire[l]) \in Nat
    BY Queues
  <2>2. CASE i \in 1..Len(wire[l]) /\ k \in 1..Len(wire[l])
    <3>1. wire'[l][i] = wire[l][i] /\ wire'[l][k] = wire[l][k]
      BY <2>2, SpokenWire
    <3>2. Precedes(sent[Sender(wire[l][i])], wire[l][i], wire[l][k])
      BY <1>4, <2>2, <3>1 DEF WireInOrder
    <3>3. QED
      BY <1>3, <1>4, <2>2, <3>1, <3>2, PrecedesKept
  <2>3. CASE /\ i \in 1..Len(wire[l]) /\ k - Len(wire[l]) \in 1..Len(frames)
             /\ wire'[l][k] = frames[k - Len(wire[l])]
    <3>1. wire'[l][i] = wire[l][i] /\ Sender(wire'[l][k]) = w /\ Named(wire'[l][k]) = WasSent(item)
      BY <1>2, <2>3, SpokenWire
    <3>2. QED
      BY <1>1, <1>3, <1>4, <2>3, <3>1 DEF Precedes
  <2>4. CASE /\ i - Len(wire[l]) \in 1..Len(frames) /\ wire'[l][i] = frames[i - Len(wire[l])]
             /\ k - Len(wire[l]) \in 1..Len(frames) /\ wire'[l][k] = frames[k - Len(wire[l])]
    <3>1. i - Len(wire[l]) < k - Len(wire[l])
      BY <1>4, <2>1
    <3>2. QED
      BY <1>2, <2>4, <3>1 DEF Precedes
  <2>5. \/ i \in 1..Len(wire[l])
        \/ i - Len(wire[l]) \in 1..Len(frames) /\ wire'[l][i] = frames[i - Len(wire[l])]
    BY <1>4, SpokenWire
  <2>6. \/ k \in 1..Len(wire[l])
        \/ k - Len(wire[l]) \in 1..Len(frames) /\ wire'[l][k] = frames[k - Len(wire[l])]
    BY <1>4, SpokenWire
  <2>7. k \in 1..Len(wire[l]) => i \in 1..Len(wire[l])
    BY <1>4, <2>1
  <2>8. QED
    BY <2>2, <2>3, <2>4, <2>5, <2>6, <2>7
<1>5. ASSUME NEW j \in Joiner, NEW s \in Joiner, NEW i \in 1..Len(wire'[Down(j)]),
             NEW k \in 1..Len(wire'[Up(s)]), Sender(wire'[Down(j)][i]) = s
      PROVE  Precedes(sent'[s], wire'[Down(j)][i], wire'[Up(s)][k])
  <2>1. /\ Down(j) \in Link /\ Up(s) \in Link /\ Down(j)[1] = Owner /\ Up(s)[1] = s
        /\ Up(s)[2] = Owner /\ s # Owner /\ s \in Window
    BY Links
  <2>2. i \in 1..Len(wire[Down(j)]) /\ wire'[Down(j)][i] = wire[Down(j)][i]
    <3>1. \/ i \in 1..Len(wire[Down(j)])
          \/ /\ w = Owner /\ i - Len(wire[Down(j)]) \in 1..Len(frames)
             /\ wire'[Down(j)][i] = frames[i - Len(wire[Down(j)])]
      BY <1>5, <2>1, SpokenWire
    <3>2. i \in 1..Len(wire[Down(j)])
      BY <1>2, <1>5, <2>1, <3>1
    <3>3. QED
      BY <2>1, <3>2, SpokenWire
  <2>3. CASE k \in 1..Len(wire[Up(s)])
    <3>1. wire'[Up(s)][k] = wire[Up(s)][k]
      BY <2>1, <2>3, SpokenWire
    <3>2. Precedes(sent[s], wire[Down(j)][i], wire[Up(s)][k])
      BY <1>5, <2>2, <2>3 DEF WireInOrder
    <3>3. Recorded(sent[s], Named(wire[Down(j)][i])) /\ Recorded(sent[s], Named(wire[Up(s)][k]))
      BY <1>3, <1>5, <2>1, <2>2, <2>3 DEF NothingIsMadeUp, Genuine
    <3>4. QED
      BY <2>1, <2>2, <3>1, <3>2, <3>3, PrecedesKept
  <2>4. CASE /\ s = w /\ k - Len(wire[Up(s)]) \in 1..Len(frames)
             /\ wire'[Up(s)][k] = frames[k - Len(wire[Up(s)])]
    BY <1>1, <1>2, <1>3, <1>5, <2>1, <2>2, <2>4 DEF Precedes
  <2>5. QED
    BY <2>1, <2>3, <2>4, SpokenWire
<1>6. QED
  BY <1>4, <1>5 DEF WireInOrder

LEMMA TakenWireInOrder ==
  ASSUME RelayTypes, NothingIsMadeUp, WireInOrder, NEW l, NEW x, NEW on, Takes(l, x, on)
  PROVE  WireInOrder'
<1>1. /\ on \subseteq open /\ UNCHANGED sent
      /\ l[2] # Owner => on = {}
      /\ l[2] = Owner => on = open \ {l[1]}
  BY DEF Takes
<1>2. l \in Link /\ x = wire[l][1] /\ 1 \in 1..Len(wire[l])
  BY TakenFrame
<1>3. ASSUME NEW d \in Link, d # l, d[1] = Owner, d[2] \in on
      PROVE  l[1] \in Joiner /\ l = Up(l[1]) /\ d[2] \in Joiner /\ d = Down(d[2]) /\ Sender(x) = l[1]
  <2>1. l[2] = Owner /\ d[2] # Owner
    BY <1>1, <1>3, Links
  <2>2. QED
    BY <1>2, <1>3, <2>1, Links DEF NothingIsMadeUp, Genuine
<1>4. ASSUME NEW d \in Link, NEW i \in 1..Len(wire'[d]), NEW k \in 1..Len(wire'[d]), i < k,
             Sender(wire'[d][i]) = Sender(wire'[d][k])
      PROVE  Precedes(sent[Sender(wire'[d][i])], wire'[d][i], wire'[d][k])
  <2>1. CASE d = l
    <3>1. /\ i + 1 \in 1..Len(wire[l]) /\ wire'[d][i] = wire[l][i + 1]
          /\ k + 1 \in 1..Len(wire[l]) /\ wire'[d][k] = wire[l][k + 1]
          /\ i + 1 < k + 1
      BY <1>4, <2>1, TakenWire
    <3>2. QED
      BY <1>2, <1>4, <3>1 DEF WireInOrder
  <2>2. CASE d # l /\ d[1] = Owner /\ d[2] \in on
    <3>1. Len(wire[d]) \in Nat /\ i \in Nat /\ k \in Nat
      BY Queues
    <3>2. k \in 1..Len(wire[d]) \/ (k = Len(wire[d]) + 1 /\ wire'[d][k] = x)
      BY <2>2, TakenWire
    <3>3. i \in 1..Len(wire[d]) /\ wire'[d][i] = wire[d][i]
      BY <1>4, <2>2, <3>1, <3>2, TakenWire
    <3>4. CASE k \in 1..Len(wire[d])
      <4>1. wire'[d][k] = wire[d][k]
        BY <2>2, <3>4, TakenWire
      <4>2. QED
        BY <1>4, <3>3, <3>4, <4>1 DEF WireInOrder
    <3>5. CASE wire'[d][k] = x
      <4>1. /\ l[1] \in Joiner /\ l = Up(l[1]) /\ d[2] \in Joiner /\ d = Down(d[2])
            /\ Sender(wire[d][i]) = l[1]
        BY <1>3, <1>4, <2>2, <3>3, <3>5
      <4>2. Precedes(sent[l[1]], wire[d][i], wire[l][1])
        BY <1>2, <3>3, <4>1 DEF WireInOrder
      <4>3. QED
        BY <1>2, <3>3, <3>5, <4>1, <4>2
    <3>6. QED
      BY <3>2, <3>4, <3>5
  <2>3. CASE d # l /\ ~(d[1] = Owner /\ d[2] \in on)
    BY <1>4, <2>3, TakenWire DEF WireInOrder
  <2>4. QED
    BY <2>1, <2>2, <2>3
<1>5. ASSUME NEW j \in Joiner, NEW s \in Joiner, NEW i \in 1..Len(wire'[Down(j)]),
             NEW k \in 1..Len(wire'[Up(s)]), Sender(wire'[Down(j)][i]) = s
      PROVE  Precedes(sent[s], wire'[Down(j)][i], wire'[Up(s)][k])
  <2>1. /\ Down(j) \in Link /\ Up(s) \in Link /\ Down(j)[1] = Owner /\ Down(j)[2] = j
        /\ Up(s)[1] = s /\ Up(s)[2] = Owner /\ s # Owner
    BY Links
  <2>2. PICK m \in 1..Len(wire[Up(s)]) : /\ wire'[Up(s)][k] = wire[Up(s)][m]
                                         /\ Up(s) = l => m = k + 1
    <3>1. CASE Up(s) = l
      BY <2>1, <3>1, TakenWire
    <3>2. CASE Up(s) # l
      BY <2>1, <3>2, TakenWire
    <3>3. QED
      BY <3>1, <3>2
  <2>3. CASE \E n \in 1..Len(wire[Down(j)]) : wire'[Down(j)][i] = wire[Down(j)][n]
    BY <1>5, <2>2, <2>3 DEF WireInOrder
  <2>4. CASE Down(j) # l /\ j \in on /\ wire'[Down(j)][i] = x
    <3>1. l[1] = s /\ l = Up(s)
      BY <1>3, <1>5, <2>1, <2>4
    <3>2. m \in 1..Len(wire[l]) /\ 1 < m
      BY <2>2, <3>1, Queues
    <3>3. Sender(wire[l][m]) = s
      BY <1>2, <2>1, <3>1, <3>2 DEF NothingIsMadeUp, Genuine
    <3>4. Precedes(sent[s], wire[l][1], wire[l][m])
      BY <1>2, <1>5, <2>4, <3>2, <3>3 DEF WireInOrder
    <3>5. QED
      BY <1>2, <2>2, <2>4, <3>1, <3>4
  <2>5. QED
    <3>1. CASE Down(j) = l
      BY <2>1, <2>3, <3>1, TakenWire
    <3>2. CASE Down(j) # l /\ j \in on
      BY <2>1, <2>3, <2>4, <3>2, TakenWire
    <3>3. CASE Down(j) # l /\ j \notin on
      BY <2>1, <2>3, <3>3, TakenWire
    <3>4. QED
      BY <3>1, <3>2, <3>3
<1>6. QED
  BY <1>1, <1>4, <1>5 DEF WireInOrder

LEMMA LostWireInOrder ==
  ASSUME RelayTypes, WireInOrder, Loses
  PROVE  WireInOrder'
<1>1. /\ \A l \in Link : wire'[l] = wire[l] \/ wire'[l] = <<>>
      /\ UNCHANGED sent
  BY DEF Loses
<1>2. \A j \in Joiner : Down(j) \in Link /\ Up(j) \in Link
  BY Links
<1>3. /\ \A l \in Link : wire'[l] = wire[l] \/ Len(wire'[l]) = 0
  BY <1>1
<1>4. QED
  BY <1>1, <1>2, <1>3 DEF WireInOrder

-----------------------------------------------------------------------------
(* A file is announced once.                                               *)

LEMMA SpokenGone ==
  ASSUME RelayTypes, NothingIsMadeUp, NEW w, NEW item, NEW frames, Speaks(w, item, frames),
         NEW f \in File, Known(sent, f), NEW l \in Link, Gone(wire[l], f)
  PROVE  Gone(wire'[l], f)
<1>1. /\ ~Recorded(sent[w], WasSent(item))
      /\ \A i \in 1..Len(frames) : Sender(frames[i]) = w /\ Named(frames[i]) = WasSent(item)
  BY DEF Speaks
<1>2. Sender(Meta(f)) = SenderOf[f] /\ Named(Meta(f)) = <<"image", f>>
  BY Frames DEF Sender, Named
<1>3. \A i \in 1..Len(frames) : frames[i] # Meta(f)
  BY <1>1, <1>2 DEF Known
<1>4. QED
  BY <1>3, SpokenWire DEF Gone

LEMMA SpokenOnce ==
  ASSUME RelayTypes, NothingIsMadeUp, AnnouncedOnce,
         NEW w, NEW item, NEW frames, Speaks(w, item, frames)
  PROVE  AnnouncedOnce'
<1>1. /\ w \in Window /\ item \in Message /\ item.from = w
      /\ item.type = "image" => SenderOf[item.id] = w
      /\ messages' = [messages EXCEPT ![w] = Append(@, item)]
      /\ announced' = [j \in Joiner |-> IF w = Owner /\ j \in open /\ item.type = "image"
                                          THEN item.id ELSE announced[j]]
      /\ UNCHANGED entry
  BY DEF Speaks
<1>2. ASSUME NEW j \in Joiner, announced'[j] # NoFile, SenderOf[announced'[j]] \in Joiner
      PROVE  Gone(wire'[Up(SenderOf[announced'[j]])], announced'[j])
  <2>1. announced'[j] = announced[j]
    BY <1>1, <1>2, Links
  <2>2. announced[j] \in File
    BY <1>2, <2>1 DEF RelayTypes
  <2>3. Known(sent, announced[j]) /\ Gone(wire[Up(SenderOf[announced[j]])], announced[j])
    BY <1>2, <2>1 DEF NothingIsMadeUp, AnnouncedOnce
  <2>4. QED
    BY <1>2, <2>1, <2>2, <2>3, Links, SpokenGone
<1>3. ASSUME NEW l \in Link, NEW f \in File, Known(sent, f), GoneOn(wire, l, f)
      PROVE  GoneOn(wire', l, f)
  BY <1>3, Links, SpokenGone DEF GoneOn
<1>4. ASSUME NEW l \in Link, entry[l].current # NoFile
      PROVE  GoneOn(wire', l, entry[l].current)
  <2>1. entry[l].current \in File
    BY <1>4 DEF RelayTypes, FileEntry
  <2>2. QED
    BY <1>3, <1>4, <2>1 DEF NothingIsMadeUp, AnnouncedOnce
<1>5. ASSUME NEW l \in Link, NEW i \in 1..Len(messages'[l[2]]),
             messages'[l[2]][i].type = "image", messages'[l[2]][i].from # l[2]
      PROVE  /\ entry[l].current # messages'[l[2]][i].id
             /\ GoneOn(wire', l, messages'[l[2]][i].id)
  <2>1. l[2] \in Window
    BY Links
  <2>2. i \in 1..Len(messages[l[2]]) /\ messages'[l[2]][i] = messages[l[2]][i]
    <3>1. messages[l[2]] \in Seq(Message)
      BY <2>1, Panes
    <3>2. messages'[l[2]] = IF l[2] = w THEN Append(messages[l[2]], item) ELSE messages[l[2]]
      BY <1>1, <2>1 DEF RelayTypes
    <3> HIDE DEF Message
    <3>3. QED
      BY <1>1, <1>5, <3>1, <3>2
  <2>3. /\ messages[l[2]][i].id \in File
        /\ messages[l[2]][i].from = SenderOf[messages[l[2]][i].id]
    BY <1>5, <2>1, <2>2, Panes, Messages DEF NothingIsMadeUp
  <2>4. Known(sent, messages[l[2]][i].id)
    <3>1. WasSent(messages[l[2]][i]) = <<"image", messages[l[2]][i].id>>
      BY <1>5, <2>2 DEF WasSent
    <3>2. QED
      BY <2>1, <2>2, <2>3, <3>1 DEF NothingIsMadeUp, Known
  <2>5. QED
    BY <1>3, <1>5, <2>2, <2>3, <2>4 DEF AnnouncedOnce
<1>6. QED
  BY <1>1, <1>2, <1>4, <1>5 DEF AnnouncedOnce

\* Nothing is put in front of what a joiner has still to send.
LEMMA UpShrinks ==
  ASSUME RelayTypes, NEW l, NEW x, NEW on, Takes(l, x, on), NEW s \in Joiner,
         NEW k \in 1..Len(wire'[Up(s)])
  PROVE  \E m \in 1..Len(wire[Up(s)]) : /\ wire'[Up(s)][k] = wire[Up(s)][m]
                                        /\ m = IF Up(s) = l THEN k + 1 ELSE k
<1>1. Up(s) \in Link /\ Up(s)[1] # Owner
  BY Links
<1>2. CASE Up(s) = l
  BY <1>1, <1>2, TakenWire
<1>3. CASE Up(s) # l
  BY <1>1, <1>3, TakenWire
<1>4. QED
  BY <1>2, <1>3

LEMMA TakenOn ==
  ASSUME RelayTypes, NothingIsMadeUp, NEW l, NEW x, NEW on, Takes(l, x, on),
         NEW d \in Link, d # l, d[1] = Owner, d[2] \in on
  PROVE  l[1] \in Joiner /\ l = Up(l[1]) /\ d[2] \in Joiner /\ d = Down(d[2]) /\ Sender(x) = l[1]
<1>1. /\ on \subseteq open
      /\ l[2] # Owner => on = {}
      /\ l[2] = Owner => on = open \ {l[1]}
  BY DEF Takes
<1>2. l \in Link /\ x = wire[l][1] /\ 1 \in 1..Len(wire[l])
  BY TakenFrame
<1>3. l[2] = Owner /\ d[2] # Owner
  BY <1>1, Links
<1>4. QED
  BY <1>2, <1>3, Links DEF NothingIsMadeUp, Genuine

LEMMA TakenGone ==
  ASSUME RelayTypes, NothingIsMadeUp, NEW l, NEW x, NEW on, Takes(l, x, on),
         NEW d \in Link, NEW f \in File, GoneOn(wire, d, f)
  PROVE  GoneOn(wire', d, f)
<1>1. SenderOf[f] \in Joiner => Gone(wire'[Up(SenderOf[f])], f)
  BY UpShrinks DEF GoneOn, Gone
<1>2. Gone(wire'[d], f)
  <2>1. CASE d = l
    BY <2>1, TakenWire DEF GoneOn, Gone
  <2>2. CASE d # l /\ d[1] = Owner /\ d[2] \in on
    <3>1. l[1] \in Joiner /\ l = Up(l[1]) /\ Sender(x) = l[1] /\ x = wire[l][1] /\ 1 \in 1..Len(wire[l])
      BY <2>2, TakenOn, TakenFrame
    <3>2. x # Meta(f)
      <4>1. Sender(Meta(f)) = SenderOf[f]
        BY Frames DEF Sender
      <4>2. QED
        BY <3>1, <4>1 DEF GoneOn, Gone
    <3>3. \A i \in 1..Len(wire'[d]) :
            (i \in 1..Len(wire[d]) /\ wire'[d][i] = wire[d][i]) \/ wire'[d][i] = x
      BY <2>2, TakenWire
    <3>4. QED
      BY <3>2, <3>3 DEF GoneOn, Gone
  <2>3. CASE d # l /\ ~(d[1] = Owner /\ d[2] \in on)
    BY <2>3, TakenWire DEF GoneOn
  <2>4. QED
    BY <2>1, <2>2, <2>3
<1>3. QED
  BY <1>1, <1>2 DEF GoneOn

\* An announcement is not the one before another one of the file.
LEMMA NotBeforeItself ==
  ASSUME RelayTypes, NEW f \in File, Known(sent, f), NEW y, Precedes(sent[SenderOf[f]], Meta(f), y)
  PROVE  y # Meta(f)
<1>1. /\ Named(Meta(f)) = <<"image", f>> /\ Number(Meta(f)) = 0
      /\ SenderOf[f] \in Window
  BY Frames, RelayAssumption DEF Named, Number, Window
<1>2. sent[SenderOf[f]] \in Seq(Message)
  BY <1>1, Panes
<1>3. QED
  BY <1>1, <1>2, EarlierIsOther DEF Precedes, Known

LEMMA TakenOnce ==
  ASSUME RelayTypes, NothingIsMadeUp, NothingIsMadeUp', WireInOrder, AnnouncedOnce,
         NEW l, NEW x, NEW on, Takes(l, x, on)
  PROVE  AnnouncedOnce'
<1>1. /\ on \subseteq open /\ l[2] # Owner => on = {}
      /\ announced' = [j \in Joiner |-> IF j \in on /\ x.type = "FILE_META"
                                          THEN x.file ELSE announced[j]]
  BY DEF Takes
<1>2. /\ l \in Link /\ l[2] \in Window /\ x \in Frame /\ x = wire[l][1] /\ 1 \in 1..Len(wire[l])
      /\ entry[l] \in FileEntry /\ entry'[l] = EntryAfter(entry[l], x)
  BY TakenFrame
<1>3. ASSUME x.type = "FILE_META"
      PROVE  /\ x.file \in File /\ Known(sent, x.file) /\ x = Meta(x.file)
             /\ Sender(x) = SenderOf[x.file] /\ GoneOn(wire', l, x.file)
             /\ l[2] = Owner => SenderOf[x.file] = l[1]
  <2>1. /\ x.file \in File /\ x = Meta(x.file) /\ Sender(x) = SenderOf[x.file]
        /\ Named(x) = <<"image", x.file>>
    BY <1>2, <1>3, Frames DEF Sender, Named
  <2>2. /\ Known(sent, x.file) /\ SenderOf[x.file] # l[2]
        /\ l[2] = Owner => SenderOf[x.file] = l[1]
    BY <1>2, <2>1 DEF NothingIsMadeUp, Genuine, Known
  <2>3. Gone(wire'[l], x.file)
    <3>1. SUFFICES ASSUME NEW i \in 1..Len(wire'[l]), wire'[l][i] = Meta(x.file)
                   PROVE  FALSE
      BY DEF Gone
    <3>2. i + 1 \in 1..Len(wire[l]) /\ wire[l][i + 1] = x /\ 1 < i + 1
      BY <1>2, <2>1, <3>1, TakenWire
    <3>3. Precedes(sent[SenderOf[x.file]], x, wire[l][i + 1])
      BY <1>2, <2>1, <3>2 DEF WireInOrder
    <3>4. QED
      BY <2>1, <2>2, <3>2, <3>3, NotBeforeItself
  <2>4. ASSUME SenderOf[x.file] \in Joiner
        PROVE  Gone(wire'[Up(SenderOf[x.file])], x.file)
    <3>1. CASE l[2] = Owner
      BY <1>2, <2>2, <2>3, <3>1, Links
    <3>2. CASE l[2] # Owner
      <4>1. l[2] \in Joiner /\ l = Down(l[2])
        BY <1>2, <3>2, Links
      <4>2. \A k \in 1..Len(wire[Up(SenderOf[x.file])]) :
              Precedes(sent[SenderOf[x.file]], x, wire[Up(SenderOf[x.file])][k])
        BY <1>2, <2>1, <2>4, <4>1 DEF WireInOrder
      <4>3. \A k \in 1..Len(wire[Up(SenderOf[x.file])]) :
              wire[Up(SenderOf[x.file])][k] # Meta(x.file)
        BY <2>1, <2>2, <4>2, NotBeforeItself
      <4>4. QED
        BY <2>4, <4>3, UpShrinks DEF Gone
    <3>3. QED
      BY <3>1, <3>2
  <2>5. QED
    BY <2>1, <2>2, <2>3, <2>4 DEF GoneOn
<1>4. ASSUME NEW j \in Joiner, announced'[j] # NoFile, SenderOf[announced'[j]] \in Joiner
      PROVE  Gone(wire'[Up(SenderOf[announced'[j]])], announced'[j])
  <2>1. CASE j \in on /\ x.type = "FILE_META"
    BY <1>1, <1>3, <1>4, <2>1 DEF GoneOn
  <2>2. CASE ~(j \in on /\ x.type = "FILE_META")
    <3>1. announced'[j] = announced[j]
      BY <1>1, <2>2
    <3>2. Gone(wire[Up(SenderOf[announced[j]])], announced[j])
      BY <1>4, <3>1 DEF AnnouncedOnce
    <3>3. QED
      BY <1>4, <3>1, <3>2, UpShrinks DEF Gone
  <2>3. QED
    BY <2>1, <2>2
<1>5. \A d \in Link : \/ entry'[d].current = entry[d].current
                      \/ d = l /\ x.type = "FILE_META" /\ entry'[d].current = x.file
                      \/ d = l /\ x.type = "chunk" /\ entry'[d].current = NoFile
  <2>1. CASE x.type = "FILE_META"
    BY <1>2, <2>1, TakenFrame, EntryAfterMeta
  <2>2. CASE x.type = "chat"
    BY <1>2, <2>2, TakenFrame, EntryAfterChat
  <2>3. CASE x.type = "chunk"
    <3>1. EntryAfter(entry[l], x).current \in {NoFile, entry[l].current}
      BY <1>2, <2>3, EntryAfterChunk
    <3>2. QED
      BY <1>2, <2>3, <3>1, TakenFrame
  <2>4. QED
    BY <1>2, <2>1, <2>2, <2>3, Frames
<1>6. ASSUME NEW d \in Link, entry'[d].current # NoFile
      PROVE  GoneOn(wire', d, entry'[d].current)
  <2>1. CASE entry'[d].current = entry[d].current
    <3>1. entry[d].current \in File
      BY <1>6, <2>1 DEF RelayTypes, FileEntry
    <3>2. QED
      BY <1>6, <2>1, <3>1, TakenGone DEF AnnouncedOnce
  <2>2. CASE d = l /\ x.type = "FILE_META" /\ entry'[d].current = x.file
    BY <1>3, <2>2
  <2>3. QED
    BY <1>5, <1>6, <2>1, <2>2
<1>7. ASSUME NEW d \in Link, NEW m \in Message, m.type = "image", m.from # d[2],
             NEW i \in 1..Len(messages[d[2]]), m = messages[d[2]][i]
      PROVE  entry'[d].current # m.id /\ GoneOn(wire', d, m.id)
  <2>1. m.id \in File /\ m.id # NoFile
    BY <1>7, Messages, RelayAssumption
  <2>2. entry[d].current # m.id /\ GoneOn(wire, d, m.id)
    BY <1>7 DEF AnnouncedOnce
  <2>3. GoneOn(wire', d, m.id)
    BY <2>1, <2>2, TakenGone
  <2>4. d = l /\ x.type = "FILE_META" => x.file # m.id
    BY <1>2, <1>3, <2>2 DEF GoneOn, Gone
  <2>5. QED
    BY <1>5, <2>1, <2>2, <2>3, <2>4
<1>8. ASSUME NEW d \in Link, d[2] = l[2], x.type = "chunk", Completes(entry[l]),
             NEW f \in File, f = entry[l].current
      PROVE  entry'[d].current # f /\ GoneOn(wire', d, f)
  <2>1. f # NoFile
    BY <1>8, RelayAssumption
  <2>2. GoneOn(wire', l, f)
    BY <1>2, <1>8, <2>1, TakenGone DEF AnnouncedOnce
  <2>3. CASE d = l
    <3>1. EntryAfter(entry[l], x).current = NoFile
      <4>1. Receiving(entry[l])
        BY <1>8 DEF Completes
      <4>2. QED
        BY <1>2, <1>8, <4>1, EntryAfterChunk
    <3>2. QED
      BY <1>2, <2>1, <2>2, <2>3, <3>1
  <2>4. CASE d # l
    <3>1. d[2] = Owner /\ d[1] # l[1] /\ d = Up(d[1]) /\ l = Up(l[1])
      BY <1>2, <1>8, <2>4, Links
    <3>2. SenderOf[f] = l[1]
      BY <1>2, <1>8, <2>1, <3>1 DEF NothingIsMadeUp
    <3>3. entry'[d].current # f
      BY <1>5, <1>8, <2>1, <2>4, <3>1, <3>2 DEF NothingIsMadeUp
    <3>4. Gone(wire'[d], f)
      <4>1. Sender(Meta(f)) = SenderOf[f]
        BY Frames DEF Sender
      <4>2. \A i \in 1..Len(wire'[d]) : Sender(wire'[d][i]) = d[1]
        BY <3>1 DEF NothingIsMadeUp, Genuine
      <4>3. QED
        BY <3>1, <3>2, <4>1, <4>2 DEF Gone
    <3>5. QED
      BY <2>2, <3>3, <3>4 DEF GoneOn
  <2>5. QED
    BY <2>3, <2>4
<1>9. ASSUME NEW d \in Link, NEW i \in 1..Len(messages'[d[2]]),
             messages'[d[2]][i].type = "image", messages'[d[2]][i].from # d[2]
      PROVE  /\ entry'[d].current # messages'[d[2]][i].id
             /\ GoneOn(wire', d, messages'[d[2]][i].id)
  <2>1. d[2] \in Window
    BY Links
  <2>2. CASE i \in 1..Len(messages[d[2]]) /\ messages'[d[2]][i] = messages[d[2]][i]
    BY <1>7, <1>9, <2>1, <2>2, Panes
  <2>3. ASSUME NEW m \in Message, Shows(entry[l], x, m), d[2] = l[2], messages'[d[2]][i] = m
        PROVE  entry'[d].current # m.id /\ GoneOn(wire', d, m.id)
    <3>1. /\ x.type = "chunk" /\ Completes(entry[l]) /\ entry[l].current \in File
          /\ m = Image(entry[l].current, Pushed(entry[l], x))
      BY <1>9, <2>3 DEF Shows
    <3>2. m.id = entry[l].current
      BY <3>1 DEF Image
    <3>3. QED
      BY <1>8, <2>3, <3>1, <3>2
  <2>4. CASE d[2] # l[2] \/ messages' = messages
    BY <1>9, <2>1, <2>2, <2>4, TakenFrame
  <2>5. ASSUME NEW m \in Message, Shows(entry[l], x, m), d[2] = l[2],
               messages'[l[2]] = Append(messages[l[2]], m)
        PROVE  \/ i \in 1..Len(messages[d[2]]) /\ messages'[d[2]][i] = messages[d[2]][i]
               \/ messages'[d[2]][i] = m
    BY <2>1, <2>5, Panes
  <2>6. QED
    BY <2>2, <2>3, <2>4, <2>5, TakenPane
<1>10. QED
  BY <1>4, <1>6, <1>9 DEF AnnouncedOnce

LEMMA LostOnce ==
  ASSUME RelayTypes, AnnouncedOnce, Loses
  PROVE  AnnouncedOnce'
<1>1. /\ \A l \in Link : wire'[l] = wire[l] \/ Len(wire'[l]) = 0
      /\ \A j \in Joiner : announced'[j] \in {NoFile, announced[j]}
      /\ \A l \in Link : entry'[l].current = entry[l].current
      /\ UNCHANGED messages
  BY DEF Loses
<1>2. ASSUME NEW l \in Link, NEW f, GoneOn(wire, l, f)
      PROVE  GoneOn(wire', l, f)
  BY <1>1, <1>2, Links DEF GoneOn, Gone
<1>3. ASSUME NEW j \in Joiner, announced'[j] # NoFile, SenderOf[announced'[j]] \in Joiner
      PROVE  Gone(wire'[Up(SenderOf[announced'[j]])], announced'[j])
  BY <1>1, <1>3, Links DEF AnnouncedOnce, Gone
<1>4. QED
  BY <1>1, <1>2, <1>3 DEF AnnouncedOnce

-----------------------------------------------------------------------------
(* Chunks follow each other.                                               *)

LEMMA NoChunks == \A f : FirstChunks(f, 0) = <<>>
BY DEF FirstChunks

LEMMA FollowsLeader ==
  ASSUME NEW q, NEW n \in Nat, n > 0, NEW e, NEW y, Leads(q[n], y)
  PROVE  Follows(q, n, e, y)
<1>1. n \in 1..n /\ \A m \in (n + 1)..n : q[m].type = "chat"
  OBVIOUS
<1>2. QED
  BY <1>1 DEF Follows

\* Chat does not disturb the assembler.
LEMMA FollowsOn ==
  ASSUME NEW q, NEW r, NEW n \in Nat, NEW k \in Nat, n <= k, NEW e, NEW y,
         \A m \in 1..n : r[m] = q[m],
         \A m \in (n + 1)..k : r[m].type = "chat",
         Follows(q, n, e, y)
  PROVE  Follows(r, k, e, y)
<1>1. \A m \in 1..k : m \in 1..n \/ m \in (n + 1)..k
  OBVIOUS
<1>2. CASE (\A m \in 1..n : q[m].type = "chat") /\ Awaits(e, y)
  BY <1>1, <1>2 DEF Follows
<1>3. ASSUME NEW i \in 1..n, Leads(q[i], y), \A m \in (i + 1)..n : q[m].type = "chat"
      PROVE  Follows(r, k, e, y)
  <2>1. i \in 1..k /\ Leads(r[i], y)
    BY <1>3
  <2>2. \A m \in (i + 1)..k : r[m].type = "chat"
    <3>1. SUFFICES ASSUME NEW m \in (i + 1)..k
                   PROVE  r[m].type = "chat"
      OBVIOUS
    <3>2. CASE m \in (n + 1)..k
      BY <3>2
    <3>3. CASE m \in 1..n
      <4>1. m \in (i + 1)..n
        BY <3>3
      <4>2. QED
        BY <1>3, <3>3, <4>1
    <3>4. m \in 1..k
      OBVIOUS
    <3>5. QED
      BY <1>1, <3>2, <3>3, <3>4
  <2>3. QED
    BY <2>1, <2>2 DEF Follows
<1>4. QED
  BY <1>2, <1>3 DEF Follows

\* The frame in front is handled.
LEMMA AwaitsAfter ==
  ASSUME NEW e \in FileEntry, NEW x \in Frame, NEW y \in Frame, Leads(x, y),
         y.number \in 1..TotalChunks[y.file],
         x.type = "chunk" => x.number \in 1..TotalChunks[x.file] /\ Awaits(e, x)
  PROVE  Awaits(EntryAfter(e, x), y)
<1>1. x.type # "chat" /\ x.file = y.file /\ y.number = Number(x) + 1
  BY DEF Leads
<1>2. CASE x.type = "FILE_META"
  <2>1. EntryAfter(e, x).current = x.file /\ EntryAfter(e, x).states[x.file] = <<>>
    BY <1>2, EntryAfterMeta
  <2>2. y.number - 1 = 0
    BY <1>1, <1>2 DEF Number
  <2>3. QED
    BY <1>1, <2>1, <2>2, NoChunks DEF Awaits
<1>3. CASE x.type = "chunk"
  <2> DEFINE f == x.file
             n == x.number
  <2>1. f \in File /\ n \in Nat /\ n > 0 /\ x = Chunk(f, n) /\ TotalChunks[f] \in Nat
    BY <1>3, Frames, RelayAssumption
  <2>2. y.number = n + 1 /\ n + 1 <= TotalChunks[f] /\ y.number - 1 = n
    BY <1>1, <1>3, <2>1 DEF Number
  <2>3. e.current = f /\ (e.states[f] = NoState \/ e.states[f] = FirstChunks(f, n - 1))
    BY <1>3 DEF Awaits
  <2>4. CASE ~Receiving(e)
    <3>1. EntryAfter(e, x) = e
      <4>1. ~Completes(e)
        BY <2>4 DEF Completes
      <4>2. QED
        BY <1>3, <2>4, <4>1, EntryAfterChunk
    <3>2. e.states[f] = NoState
      BY <2>1, <2>3, <2>4, RelayAssumption DEF Receiving
    <3>3. QED
      BY <1>1, <2>3, <3>1, <3>2 DEF Awaits
  <2>5. CASE Receiving(e)
    <3>1. e.states[f] = FirstChunks(f, n - 1)
      BY <2>3, <2>5 DEF Receiving
    <3>2. Len(FirstChunks(f, n - 1)) = n - 1 /\ Append(FirstChunks(f, n - 1), Chunk(f, n)) = FirstChunks(f, n)
      BY <2>1, OneChunkMore
    <3>3. ~Completes(e)
      BY <2>1, <2>2, <2>3, <3>1, <3>2 DEF Completes
    <3>4. /\ EntryAfter(e, x).current = e.current
          /\ EntryAfter(e, x).states[e.current] = Pushed(e, x)
      BY <1>3, <2>5, <3>3, EntryAfterChunk
    <3>5. Pushed(e, x) = FirstChunks(f, n)
      BY <2>1, <2>3, <3>1, <3>2 DEF Pushed
    <3>6. QED
      BY <1>1, <2>2, <2>3, <3>4, <3>5 DEF Awaits
  <2>6. QED
    BY <2>4, <2>5
<1>4. QED
  BY <1>1, <1>2, <1>3, Frames

LEMMA FollowsAfter ==
  ASSUME NEW q \in Seq(Frame), NEW n \in 1..Len(q), NEW e \in FileEntry, NEW y \in Frame,
         y.number \in 1..TotalChunks[y.file],
         q[1].type = "chunk" => q[1].number \in 1..TotalChunks[q[1].file] /\ Follows(q, 0, e, q[1]),
         Follows(q, n, e, y)
  PROVE  Follows(Tail(q), n - 1, EntryAfter(e, q[1]), y)
<1> DEFINE r == Tail(q)
           x == q[1]
<1>1. /\ q # <<>> /\ Len(q) \in Nat /\ n \in Nat /\ n > 0 /\ n - 1 \in Nat /\ x \in Frame
      /\ \A m \in 1..(n - 1) : r[m] = q[m + 1] /\ m + 1 \in 1..n
  OBVIOUS
<1>2. x.type = "chunk" => Awaits(e, x)
  BY DEF Follows
<1> HIDE DEF r, x
<1>3. CASE (\A m \in 1..n : q[m].type = "chat") /\ Awaits(e, y)
  <2>1. x.type = "chat" /\ \A m \in 1..(n - 1) : r[m].type = "chat"
    BY <1>1, <1>3 DEF x
  <2>2. EntryAfter(e, x) = e
    BY <1>1, <2>1, EntryAfterChat
  <2>3. Follows(r, n - 1, EntryAfter(e, x), y)
    BY <1>3, <2>1, <2>2 DEF Follows
  <2>4. QED
    BY <2>3 DEF r, x
<1>4. ASSUME NEW k \in 1..n, Leads(q[k], y), \A m \in (k + 1)..n : q[m].type = "chat"
      PROVE  Follows(r, n - 1, EntryAfter(e, x), y)
  <2>1. CASE k = 1
    <3>1. Awaits(EntryAfter(e, x), y)
      BY <1>1, <1>2, <1>4, <2>1, AwaitsAfter DEF x
    <3>2. \A m \in 1..(n - 1) : r[m].type = "chat"
      <4>1. \A m \in 1..(n - 1) : m + 1 \in 2..n
        BY <1>1
      <4>2. QED
        BY <1>1, <1>4, <2>1, <4>1
    <3>3. QED
      BY <3>1, <3>2 DEF Follows
  <2>2. CASE k # 1
    <3>1. k - 1 \in 1..(n - 1) /\ r[k - 1] = q[k]
      <4>1. k - 1 \in 1..(n - 1) /\ (k - 1) + 1 = k
        BY <1>1, <2>2
      <4>2. QED
        BY <1>1, <4>1
    <3>2. \A m \in ((k - 1) + 1)..(n - 1) : r[m].type = "chat"
      <4>1. \A m \in ((k - 1) + 1)..(n - 1) : m \in 1..(n - 1) /\ m + 1 \in (k + 1)..n
        BY <1>1
      <4>2. QED
        BY <1>1, <1>4, <4>1
    <3>3. QED
      BY <1>4, <3>1, <3>2 DEF Follows
  <2>3. QED
    BY <2>1, <2>2
<1>5. QED
  BY <1>3, <1>4 DEF Follows, r, x

\* An assembler that loses its file.
LEMMA FollowsLost ==
  ASSUME NEW q, NEW n, NEW e, NEW d, NEW y, d.current = e.current,
         d.states[y.file] \in {e.states[y.file], NoState}, Follows(q, n, e, y)
  PROVE  Follows(q, n, d, y)
BY DEF Follows, Awaits

LEMMA Files ==
  ASSUME RelayTypes, NothingIsMadeUp, NEW j \in Joiner, announced[j] # NoFile
  PROVE  /\ announced[j] \in File /\ j \in open /\ SenderOf[announced[j]] # j
         /\ Known(sent, announced[j])
BY DEF RelayTypes, NothingIsMadeUp

LEMMA SpokenChunks ==
  ASSUME RelayTypes, NothingIsMadeUp, ChunksFollow,
         NEW w, NEW item, NEW frames, Speaks(w, item, frames)
  PROVE  ChunksFollow'
<1>1. /\ w \in Window /\ item \in Message /\ frames \in Seq(Frame)
      /\ item.type = "image" => SenderOf[item.id] = w
      /\ ~Recorded(sent[w], WasSent(item))
      /\ \A i \in 1..Len(frames) :
           /\ Sender(frames[i]) = w /\ Named(frames[i]) = WasSent(item)
           /\ frames[i].type = "chat" <=> item.type = "chat"
           /\ frames[i].type = "chunk" =>
                i - 1 \in 1..Len(frames) /\ Leads(frames[i - 1], frames[i])
      /\ announced' = [j \in Joiner |-> IF w = Owner /\ j \in open /\ item.type = "image"
                                          THEN item.id ELSE announced[j]]
      /\ UNCHANGED <<entry, mixed>>
  BY DEF Speaks
<1>2. ASSUME NEW l \in Link, l[2] \notin mixed, NEW i \in 1..Len(wire'[l]), wire'[l][i].type = "chunk"
      PROVE  Follows(wire'[l], i - 1, entry[l], wire'[l][i])
  <2>1. Len(wire[l]) \in Nat /\ i \in Nat /\ i - 1 \in Nat /\ Len(frames) \in Nat
    BY <1>1, Queues
  <2>2. CASE i \in 1..Len(wire[l])
    <3>1. wire'[l][i] = wire[l][i] /\ \A m \in 1..(i - 1) : wire'[l][m] = wire[l][m]
      BY <2>1, <2>2, SpokenWire
    <3>2. Follows(wire[l], i - 1, entry[l], wire[l][i])
      BY <1>2, <2>2, <3>1 DEF ChunksFollow
    <3>3. \A m \in ((i - 1) + 1)..(i - 1) : wire'[l][m].type = "chat"
      BY <2>1
    <3>4. QED
      BY <2>1, <3>1, <3>2, <3>3, FollowsOn
  <2>3. CASE /\ l[1] = w /\ IsOpen(l) /\ i - Len(wire[l]) \in 1..Len(frames)
             /\ wire'[l][i] = frames[i - Len(wire[l])]
    <3> DEFINE k == i - Len(wire[l])
    <3>1. k - 1 \in 1..Len(frames) /\ Leads(frames[k - 1], frames[k])
      BY <1>1, <1>2, <2>3
    <3>2. Len(wire'[l]) = Len(wire[l]) + Len(frames)
      BY <2>3, SpokenWire
    <3>3. /\ i - 1 \in 1..Len(wire'[l]) /\ (i - 1) - Len(wire[l]) = k - 1
          /\ i - 1 \notin 1..Len(wire[l]) /\ i - 1 > 0
      BY <2>1, <2>3, <3>1, <3>2
    <3>4. wire'[l][i - 1] = frames[k - 1]
      BY <3>3, SpokenWire
    <3>5. QED
      BY <2>1, <2>3, <3>1, <3>3, <3>4, FollowsLeader
  <2>4. QED
    BY <2>2, <2>3, SpokenWire
<1>3. ASSUME NEW j \in Joiner, NEW s \in Joiner, j \notin mixed, announced'[j] # NoFile,
             SenderOf[announced'[j]] = s, NEW i \in 1..Len(wire'[Up(s)]),
             IsFirstOf(wire'[Up(s)], i, announced'[j])
      PROVE  Follows(wire'[Down(j)], Len(wire'[Down(j)]), entry[Down(j)], wire'[Up(s)][i])
  <2>1. /\ Down(j) \in Link /\ Up(s) \in Link /\ Down(j)[1] = Owner /\ Up(s)[1] = s /\ s # Owner
    BY Links
  <2>2. announced'[j] = announced[j] /\ ~(w = Owner /\ j \in open /\ item.type = "image")
    BY <1>1, <1>3, <2>1
  <2>3. Known(sent, announced[j]) /\ j \in open /\ announced[j] \in File
    BY <1>3, <2>2, Files
  <2>4. Len(wire[Up(s)]) \in Nat /\ i \in Nat /\ Len(wire[Down(j)]) \in Nat
    BY <2>1, Queues
  <2>5. i \in 1..Len(wire[Up(s)])
    <3>1. SUFFICES ASSUME NEW k \in 1..Len(frames), s = w, wire'[Up(s)][i] = frames[k]
                   PROVE  FALSE
      BY <2>1, SpokenWire
    <3>2. frames[k].type = "chunk" /\ frames[k].file = announced[j]
      BY <1>3, <2>2, <3>1 DEF IsFirstOf
    <3>3. Named(frames[k]) = <<"image", announced[j]>>
      BY <3>2 DEF Named
    <3>4. QED
      BY <1>1, <1>3, <2>2, <2>3, <3>1, <3>3 DEF Known
  <2>6. /\ wire'[Up(s)][i] = wire[Up(s)][i]
        /\ \A k \in 1..(i - 1) : wire'[Up(s)][k] = wire[Up(s)][k]
    BY <2>1, <2>4, <2>5, SpokenWire
  <2>7. IsFirstOf(wire[Up(s)], i, announced[j])
    BY <1>3, <2>2, <2>6 DEF IsFirstOf
  <2>8. Follows(wire[Down(j)], Len(wire[Down(j)]), entry[Down(j)], wire[Up(s)][i])
    BY <1>3, <2>2, <2>5, <2>7 DEF ChunksFollow
  <2>9. CASE wire'[Down(j)] = wire[Down(j)]
    BY <2>6, <2>8, <2>9
  <2>10. CASE w = Owner /\ IsOpen(Down(j))
    <3>1. item.type = "chat"
      BY <1>1, <2>2, <2>3, <2>10, Messages
    <3>2. /\ Len(wire'[Down(j)]) = Len(wire[Down(j)]) + Len(frames) /\ Len(frames) \in Nat
          /\ \A m \in 1..Len(wire[Down(j)]) : wire'[Down(j)][m] = wire[Down(j)][m]
      BY <1>1, <2>1, <2>10, SpokenWire
    <3>3. \A m \in (Len(wire[Down(j)]) + 1)..Len(wire'[Down(j)]) : wire'[Down(j)][m].type = "chat"
      <4>1. SUFFICES ASSUME NEW m \in (Len(wire[Down(j)]) + 1)..Len(wire'[Down(j)])
                     PROVE  wire'[Down(j)][m].type = "chat"
        OBVIOUS
      <4>2. m \in 1..Len(wire'[Down(j)]) /\ m \notin 1..Len(wire[Down(j)])
        BY <2>4, <3>2
      <4>3. /\ m - Len(wire[Down(j)]) \in 1..Len(frames)
            /\ wire'[Down(j)][m] = frames[m - Len(wire[Down(j)])]
        BY <2>1, <4>2, SpokenWire
      <4>4. QED
        BY <1>1, <3>1, <4>3
    <3>4. Len(wire'[Down(j)]) \in Nat /\ Len(wire[Down(j)]) <= Len(wire'[Down(j)])
      BY <2>4, <3>2
    <3>5. QED
      BY <2>4, <2>6, <2>8, <3>2, <3>3, <3>4, FollowsOn
  <2>11. QED
    BY <2>1, <2>9, <2>10, SpokenWire
<1>4. QED
  BY <1>1, <1>2, <1>3 DEF ChunksFollow

LEMMA TakenChunks ==
  ASSUME RelayTypes, NothingIsMadeUp, AnnouncedOnce, WireInOrder, ChunksFollow,
         NEW l, NEW x, NEW on, Takes(l, x, on)
  PROVE  ChunksFollow'
<1>1. /\ on \subseteq open
      /\ l[2] # Owner => on = {}
      /\ l[2] = Owner => on = open \ {l[1]}
      /\ announced' = [j \in Joiner |-> IF j \in on /\ x.type = "FILE_META"
                                          THEN x.file ELSE announced[j]]
      /\ mixed' = mixed \cup {j \in on : x.type = "chunk" /\ x.file # announced[j]}
      /\ open \subseteq Joiner
  BY DEF Takes, RelayTypes
<1>2. /\ l \in Link /\ l[2] \in Window /\ x \in Frame /\ x = wire[l][1] /\ 1 \in 1..Len(wire[l])
      /\ entry[l] \in FileEntry /\ entry'[l] = EntryAfter(entry[l], x)
      /\ \A d \in Link : d # l => entry'[d] = entry[d]
  BY TakenFrame
<1>3. wire[l] \in Seq(Frame) /\ Len(wire[l]) \in Nat
  BY <1>2, Queues
<1>4. \A d \in Link : \A i \in 1..Len(wire[d]) :
        /\ wire[d][i] \in Frame
        /\ wire[d][i].type = "chunk" => wire[d][i].number \in 1..TotalChunks[wire[d][i].file]
  BY Queues DEF NothingIsMadeUp, Genuine
\* The queue a frame is taken from.
<1>5. ASSUME l[2] \notin mixed, NEW n \in 1..Len(wire[l]), NEW y \in Frame,
             y.number \in 1..TotalChunks[y.file], Follows(wire[l], n, entry[l], y)
      PROVE  Follows(wire'[l], n - 1, entry'[l], y)
  <2>1. wire[l][1].type = "chunk" =>
          /\ wire[l][1].number \in 1..TotalChunks[wire[l][1].file]
          /\ Follows(wire[l], 0, entry[l], wire[l][1])
    <3>1. ASSUME wire[l][1].type = "chunk"
          PROVE  Follows(wire[l], 1 - 1, entry[l], wire[l][1])
      BY <1>2, <1>5, <3>1 DEF ChunksFollow
    <3>2. QED
      BY <1>2, <1>4, <3>1
  <2>2. Follows(Tail(wire[l]), n - 1, EntryAfter(entry[l], wire[l][1]), y)
    BY <1>2, <1>3, <1>5, <2>1, FollowsAfter
  <2>3. QED
    BY <1>2, <2>2, TakenWire
<1>6. ASSUME NEW d \in Link, d[2] \notin mixed', NEW i \in 1..Len(wire'[d]), wire'[d][i].type = "chunk"
      PROVE  Follows(wire'[d], i - 1, entry'[d], wire'[d][i])
  <2>1. d[2] \notin mixed
    BY <1>1, <1>6
  <2>2. CASE d = l
    <3>1. i + 1 \in 1..Len(wire[l]) /\ wire'[l][i] = wire[l][i + 1] /\ i \in 1..Len(wire[l])
          /\ i \in Nat /\ (i + 1) - 1 = i
      BY <1>2, <1>3, <2>2, TakenWire
    <3>2. Follows(wire[l], (i + 1) - 1, entry[l], wire[l][i + 1])
      BY <1>2, <1>6, <2>1, <2>2, <3>1 DEF ChunksFollow
    <3>3. QED
      BY <1>4, <1>5, <1>6, <1>2, <2>1, <2>2, <3>1, <3>2
  <2>3. CASE d # l /\ d[1] = Owner /\ d[2] \in on
    <3>1. /\ \A m \in 1..Len(wire[d]) : wire'[d][m] = wire[d][m]
          /\ i \in 1..Len(wire[d]) \/ i = Len(wire[d]) + 1
          /\ wire'[d][Len(wire[d]) + 1] = x
          /\ Len(wire[d]) \in Nat /\ i \in Nat /\ i - 1 \in Nat
          /\ \A m \in ((i - 1) + 1)..(i - 1) : wire'[d][m].type = "chat"
      BY <2>3, TakenWire, Queues
    <3>2. Follows(wire[d], i - 1, entry[d], wire'[d][i])
      <4>1. CASE i \in 1..Len(wire[d])
        BY <1>6, <2>1, <3>1, <4>1 DEF ChunksFollow
      <4>2. CASE i = Len(wire[d]) + 1
        <5>1. x.type = "chunk" /\ d[2] \in Joiner
          BY <1>1, <1>6, <2>3, <3>1, <4>2
        <5>2. x.file = announced[d[2]]
          BY <1>1, <1>6, <2>3, <5>1
        <5>3. l[1] \in Joiner /\ l = Up(l[1]) /\ d = Down(d[2]) /\ SenderOf[x.file] = l[1]
          BY <2>3, <5>1, TakenOn DEF Sender
        <5>4. announced[d[2]] # NoFile
          BY <1>2, <5>1, <5>2, Frames, RelayAssumption
        <5>5. IsFirstOf(wire[l], 1, announced[d[2]])
          BY <1>2, <5>1, <5>2 DEF IsFirstOf
        <5>6. Follows(wire[d], Len(wire[d]), entry[d], wire[l][1])
          BY <1>2, <2>1, <5>1, <5>2, <5>3, <5>4, <5>5 DEF ChunksFollow
        <5>7. i - 1 = Len(wire[d]) /\ wire'[d][i] = wire[l][1]
          BY <1>2, <3>1, <4>2
        <5>8. QED
          BY <5>6, <5>7
      <4>3. QED
        BY <3>1, <4>1, <4>2
    <3>3. \A m \in 1..(i - 1) : wire'[d][m] = wire[d][m]
      BY <3>1
    <3>4. entry'[d] = entry[d]
      BY <1>2, <2>3
    <3>5. ASSUME NEW n \in Nat, NEW e, NEW y, Follows(wire[d], n, e, y),
                 \A m \in 1..n : wire'[d][m] = wire[d][m]
          PROVE  Follows(wire'[d], n, e, y)
      BY <3>5 DEF Follows
    <3>6. Follows(wire'[d], i - 1, entry[d], wire'[d][i])
      BY <3>1, <3>2, <3>3, <3>5
    <3>7. QED
      BY <3>4, <3>6
  <2>4. CASE d # l /\ ~(d[1] = Owner /\ d[2] \in on)
    BY <1>2, <1>6, <2>1, <2>4, TakenWire DEF ChunksFollow
  <2>5. QED
    BY <2>2, <2>3, <2>4
<1>7. ASSUME NEW j \in Joiner, NEW s \in Joiner, j \notin mixed', announced'[j] # NoFile,
             SenderOf[announced'[j]] = s, NEW i \in 1..Len(wire'[Up(s)]),
             IsFirstOf(wire'[Up(s)], i, announced'[j])
      PROVE  Follows(wire'[Down(j)], Len(wire'[Down(j)]), entry'[Down(j)], wire'[Up(s)][i])
  <2> DEFINE f == announced'[j]
             y == wire'[Up(s)][i]
  <2>1. /\ Down(j) \in Link /\ Up(s) \in Link /\ Down(j)[1] = Owner /\ Down(j)[2] = j
        /\ Up(s)[1] = s /\ Up(s)[2] = Owner /\ s # Owner /\ Owner \in Window
        /\ Owner \notin Joiner
    BY Links
  <2>2. y.type = "chunk" /\ y.file = f
    BY <1>7 DEF IsFirstOf
  <2>3. PICK m \in 1..Len(wire[Up(s)]) : /\ wire'[Up(s)][i] = wire[Up(s)][m]
                                         /\ m = IF Up(s) = l THEN i + 1 ELSE i
    BY UpShrinks
  <2>4. y \in Frame /\ y.number \in 1..TotalChunks[y.file]
    BY <1>4, <2>1, <2>2, <2>3
  <2>5. j \notin mixed
    BY <1>1, <1>7
  <2>6. Len(wire[Down(j)]) \in Nat
    BY <2>1, Queues
  <2>7. CASE Up(s) # l
    <3>1. ~(j \in on /\ x.type = "FILE_META")
      <4>1. SUFFICES ASSUME j \in on, x.type = "FILE_META"
                     PROVE  FALSE
        OBVIOUS
      <4>2. f = x.file
        BY <1>1, <4>1
      <4>3. Down(j) # l
        BY <1>1, <2>1, <4>1
      <4>4. l = Up(l[1]) /\ Sender(x) = l[1]
        BY <2>1, <4>1, <4>3, TakenOn
      <4>5. QED
        BY <1>7, <2>7, <4>1, <4>2, <4>4 DEF Sender
    <3>2. announced[j] = f
      BY <1>1, <3>1
    <3>3. wire'[Up(s)] = wire[Up(s)] /\ m = i
      BY <2>1, <2>3, <2>7, TakenWire
    <3>4. Follows(wire[Down(j)], Len(wire[Down(j)]), entry[Down(j)], y)
      BY <1>7, <2>3, <2>5, <3>2, <3>3 DEF ChunksFollow
    <3>5. CASE Down(j) = l
      <4>1. Len(wire[l]) \in 1..Len(wire[l]) /\ Len(wire'[l]) = Len(wire[l]) - 1
        BY <1>2, <1>3, TakenWire
      <4>2. QED
        BY <1>5, <2>1, <2>4, <2>5, <3>4, <3>5, <4>1
    <3>6. CASE Down(j) # l /\ j \in on
      <4>1. l = Up(l[1]) /\ Sender(x) = l[1]
        BY <2>1, <3>6, TakenOn
      <4>2. x.type = "chat"
        <5>1. x.type # "chunk"
          BY <1>1, <1>7, <2>7, <3>2, <3>6, <4>1 DEF Sender
        <5>2. QED
          BY <1>2, <3>1, <3>6, <5>1, Frames
      <4>3. /\ Len(wire'[Down(j)]) = Len(wire[Down(j)]) + 1
            /\ wire'[Down(j)][Len(wire[Down(j)]) + 1] = x
            /\ \A k \in 1..Len(wire[Down(j)]) : wire'[Down(j)][k] = wire[Down(j)][k]
        BY <2>1, <3>6, TakenWire
      <4>4. \A k \in (Len(wire[Down(j)]) + 1)..Len(wire'[Down(j)]) : wire'[Down(j)][k].type = "chat"
        BY <2>6, <4>2, <4>3
      <4>5. Len(wire'[Down(j)]) \in Nat /\ Len(wire[Down(j)]) <= Len(wire'[Down(j)])
        BY <2>6, <4>3
      <4>6. entry'[Down(j)] = entry[Down(j)]
        BY <1>2, <2>1, <3>6
      <4>7. QED
        BY <2>6, <3>4, <4>3, <4>4, <4>5, <4>6, FollowsOn
    <3>7. CASE Down(j) # l /\ j \notin on
      BY <1>2, <2>1, <3>4, <3>7, TakenWire
    <3>8. QED
      BY <3>5, <3>6, <3>7
  <2>8. CASE Up(s) = l
    <3>1. on = open \ {s} /\ Down(j) # l
      BY <1>1, <2>1, <2>8
    <3>2. j \in on
      <4>1. CASE ~(j \in on /\ x.type = "FILE_META")
        <5>1. announced[j] = f
          BY <1>1, <4>1
        <5>2. j \in open /\ SenderOf[f] # j
          BY <1>7, <5>1, Files
        <5>3. QED
          BY <1>7, <3>1, <5>2
      <4>2. QED
        BY <4>1
    <3>3. Sender(x) = s
      BY <2>1, <2>8, <3>1, <3>2, TakenOn
    <3>4. /\ Len(wire'[Down(j)]) = Len(wire[Down(j)]) + 1
          /\ wire'[Down(j)][Len(wire[Down(j)]) + 1] = x
          /\ \A k \in 1..Len(wire[Down(j)]) : wire'[Down(j)][k] = wire[Down(j)][k]
          /\ entry'[Down(j)] = entry[Down(j)]
      BY <1>2, <2>1, <3>1, <3>2, TakenWire
    <3>5. /\ i \in Nat /\ m = i + 1 /\ m \in 1..Len(wire[l]) /\ y = wire[l][m] /\ i \in 1..Len(wire[l])
          /\ \A k \in 1..(i - 1) : wire'[l][k] = wire[l][k + 1]
      BY <1>2, <1>3, <2>3, <2>8, TakenWire
    <3>6. ASSUME x.type # "chat", x.file = f,
                 \A k \in 2..Len(wire[l]) : wire[l][k] # Meta(f)
          PROVE  Leads(x, y)
      <4>1. Follows(wire[l], i, entry[l], y)
        <5>1. Follows(wire[l], m - 1, entry[l], wire[l][m])
          BY <1>1, <1>2, <2>1, <2>2, <2>8, <3>5 DEF ChunksFollow, RelayTypes
        <5>2. m - 1 = i
          BY <3>5
        <5>3. QED
          BY <3>5, <5>1, <5>2
      <4>2. ~\A k \in 1..i : wire[l][k].type = "chat"
        BY <1>2, <3>5, <3>6
      <4>3. PICK k \in 1..i : Leads(wire[l][k], y)
        BY <4>1, <4>2 DEF Follows
      <4>4. k = 1
        <5>1. SUFFICES ASSUME k # 1
                       PROVE  FALSE
          OBVIOUS
        <5>2. k \in 2..Len(wire[l]) /\ k - 1 \in 1..(i - 1) /\ (k - 1) + 1 = k /\ k \in 1..Len(wire[l])
          BY <1>3, <3>5, <5>1
        <5>3. wire[l][k] \in Frame /\ wire[l][k].type # "chat" /\ wire[l][k].file = f
          BY <1>2, <1>4, <2>2, <4>3, <5>2 DEF Leads
        <5>4. wire[l][k].type # "FILE_META"
          BY <3>6, <5>2, <5>3, Frames
        <5>5. wire[l][k].type = "chunk" /\ wire'[l][k - 1] = wire[l][k]
          BY <3>5, <5>2, <5>3, <5>4, Frames
        <5>6. QED
          BY <1>7, <2>8, <5>2, <5>3, <5>5 DEF IsFirstOf
      <4>5. QED
        BY <1>2, <4>3, <4>4
    <3>7. ASSUME x.type # "chat", x.file = f,
                 \A k \in 2..Len(wire[l]) : wire[l][k] # Meta(f)
          PROVE  Follows(wire'[Down(j)], Len(wire'[Down(j)]), entry'[Down(j)], y)
      <4>1. Leads(x, y)
        BY <3>6, <3>7
      <4>2. Len(wire'[Down(j)]) \in Nat /\ Len(wire'[Down(j)]) > 0
        BY <2>6, <3>4
      <4>3. QED
        BY <3>4, <4>1, <4>2, FollowsLeader
    <3>8. CASE x.type = "FILE_META"
      <4>1. x.file = f /\ x = Meta(f) /\ f \in File /\ SenderOf[f] = s
        <5>1. x.file = f
          BY <1>1, <3>2, <3>8
        <5>2. x = Meta(x.file) /\ x.file \in File
          BY <1>2, <3>8, Frames
        <5>3. QED
          BY <1>7, <5>1, <5>2
      <4>2. Known(sent, f)
        <5>1. Recorded(sent[Sender(x)], Named(x))
          BY <1>2 DEF NothingIsMadeUp, Genuine
        <5>2. Named(x) = <<"image", x.file>> /\ Sender(x) = SenderOf[x.file]
          BY <3>8 DEF Named, Sender
        <5>3. QED
          BY <4>1, <5>1, <5>2 DEF Known
      <4>3. \A k \in 2..Len(wire[l]) : wire[l][k] # Meta(f)
        <5>1. SUFFICES ASSUME NEW k \in 2..Len(wire[l]), wire[l][k] = x
                       PROVE  FALSE
          BY <4>1
        <5>2. k \in 1..Len(wire[l]) /\ 1 < k
          BY <1>3
        <5>3. Precedes(sent[s], x, wire[l][k])
          BY <1>2, <3>3, <5>1, <5>2 DEF WireInOrder
        <5>4. QED
          BY <4>1, <4>2, <5>1, <5>3, NotBeforeItself
      <4>4. QED
        BY <3>7, <3>8, <4>1, <4>3
    <3>9. CASE x.type = "chunk"
      <4>1. x.file = f /\ announced[j] = f
        BY <1>1, <1>7, <3>2, <3>9
      <4>2. Gone(wire[l], f)
        BY <1>7, <2>8, <4>1 DEF AnnouncedOnce
      <4>3. \A k \in 2..Len(wire[l]) : k \in 1..Len(wire[l])
        BY <1>3
      <4>4. QED
        BY <3>7, <3>9, <4>1, <4>2, <4>3 DEF Gone
    <3>10. CASE x.type = "chat"
      <4>1. announced[j] = f
        BY <1>1, <3>10
      <4>2. IsFirstOf(wire[l], m, f)
        <5>1. ASSUME NEW k \in 1..(m - 1)
              PROVE  ~(wire[l][k].type = "chunk" /\ wire[l][k].file = f)
          <6>1. CASE k = 1
            BY <1>2, <3>10, <6>1
          <6>2. CASE k # 1
            <7>1. k - 1 \in 1..(i - 1) /\ (k - 1) + 1 = k
              BY <3>5, <6>2
            <7>2. wire'[l][k - 1] = wire[l][k]
              BY <3>5, <7>1
            <7>3. QED
              BY <1>7, <2>8, <7>1, <7>2 DEF IsFirstOf
          <6>3. QED
            BY <6>1, <6>2
        <5>2. QED
          BY <2>2, <3>5, <5>1 DEF IsFirstOf
      <4>3. Follows(wire[Down(j)], Len(wire[Down(j)]), entry[Down(j)], y)
        BY <1>7, <2>5, <2>8, <3>5, <4>1, <4>2 DEF ChunksFollow
      <4>4. \A k \in (Len(wire[Down(j)]) + 1)..Len(wire'[Down(j)]) : wire'[Down(j)][k].type = "chat"
        BY <2>6, <3>4, <3>10
      <4>5. Len(wire'[Down(j)]) \in Nat /\ Len(wire[Down(j)]) <= Len(wire'[Down(j)])
        BY <2>6, <3>4
      <4>6. QED
        BY <2>6, <3>4, <4>3, <4>4, <4>5, FollowsOn
    <3>11. QED
      BY <1>2, <3>8, <3>9, <3>10, Frames
  <2>9. QED
    BY <2>7, <2>8
<1>8. QED
  BY <1>6, <1>7 DEF ChunksFollow

LEMMA LostChunks ==
  ASSUME RelayTypes, NothingIsMadeUp, ChunksFollow, Loses
  PROVE  ChunksFollow'
<1>1. /\ \A l \in Link : wire'[l] = wire[l] \/ Len(wire'[l]) = 0
      /\ \A j \in Joiner : announced'[j] # NoFile =>
           announced'[j] = announced[j] /\ wire'[Down(j)] = wire[Down(j)]
      /\ \A l \in Link : /\ entry'[l].current = entry[l].current
                         /\ \A f \in File : entry'[l].states[f] \in {entry[l].states[f], NoState}
      /\ mixed' = mixed
  BY DEF Loses
<1>2. ASSUME NEW l \in Link, NEW n, NEW y \in Frame, y.type = "chunk", NEW q,
             Follows(q, n, entry[l], y)
      PROVE  Follows(q, n, entry'[l], y)
  BY <1>1, <1>2, Frames, FollowsLost
<1>3. ASSUME NEW l \in Link, l[2] \notin mixed, NEW i \in 1..Len(wire'[l]), wire'[l][i].type = "chunk"
      PROVE  Follows(wire'[l], i - 1, entry'[l], wire'[l][i])
  <2>1. wire'[l] = wire[l]
    BY <1>1
  <2>2. wire[l][i] \in Frame /\ Follows(wire[l], i - 1, entry[l], wire[l][i])
    BY <1>3, <2>1, Queues DEF ChunksFollow
  <2>3. QED
    BY <1>2, <1>3, <2>1, <2>2
<1>4. ASSUME NEW j \in Joiner, NEW s \in Joiner, j \notin mixed, announced'[j] # NoFile,
             SenderOf[announced'[j]] = s, NEW i \in 1..Len(wire'[Up(s)]),
             IsFirstOf(wire'[Up(s)], i, announced'[j])
      PROVE  Follows(wire'[Down(j)], Len(wire'[Down(j)]), entry'[Down(j)], wire'[Up(s)][i])
  <2>1. Up(s) \in Link /\ Down(j) \in Link
    BY Links
  <2>2. wire'[Up(s)] = wire[Up(s)]
    BY <1>1, <2>1
  <2>3. announced'[j] = announced[j] /\ wire'[Down(j)] = wire[Down(j)]
    BY <1>1, <1>4
  <2>4. Follows(wire[Down(j)], Len(wire[Down(j)]), entry[Down(j)], wire[Up(s)][i])
    BY <1>4, <2>2, <2>3 DEF ChunksFollow
  <2>5. wire[Up(s)][i] \in Frame /\ wire[Up(s)][i].type = "chunk"
    BY <1>4, <2>1, <2>2, Queues DEF IsFirstOf
  <2>6. QED
    BY <1>2, <2>1, <2>2, <2>3, <2>4, <2>5
<1>5. QED
  BY <1>1, <1>3, <1>4 DEF ChunksFollow

-----------------------------------------------------------------------------
(* A picture is shown whole.                                               *)

\* The chunk that completes a file is its last one, and finds the others in place.
LEMMA LastChunk ==
  ASSUME RelayTypes, NothingIsMadeUp, ChunksFollow, NEW l, NEW x, NEW on, Takes(l, x, on),
         l[2] \notin mixed, x.type = "chunk", Completes(entry[l])
  PROVE  /\ x.file = entry[l].current /\ x.file \in File /\ x.number = TotalChunks[x.file]
         /\ Pushed(entry[l], x) = SplitIntoChunks(x.file)
<1>1. l \in Link /\ x \in Frame /\ x = wire[l][1] /\ 1 \in 1..Len(wire[l])
  BY TakenFrame
<1>2. x.file \in File /\ x.number \in Nat /\ x = Chunk(x.file, x.number)
  BY <1>1, Frames
<1>3. x.number \in 1..TotalChunks[x.file] /\ TotalChunks[x.file] \in Nat
  BY <1>1, <1>2, RelayAssumption DEF NothingIsMadeUp, Genuine
<1>4. Follows(wire[l], 1 - 1, entry[l], x)
  BY <1>1 DEF ChunksFollow
<1>5. Awaits(entry[l], x)
  BY <1>4 DEF Follows
<1>6. entry[l].current = x.file /\ entry[l].states[x.file] = FirstChunks(x.file, x.number - 1)
  BY <1>5 DEF Awaits, Completes, Receiving
<1>7. /\ Len(FirstChunks(x.file, x.number - 1)) = x.number - 1
      /\ Append(FirstChunks(x.file, x.number - 1), Chunk(x.file, x.number))
           = FirstChunks(x.file, x.number)
  <2>1. x.number > 0
    BY <1>2, <1>3
  <2>2. QED
    BY <1>2, <2>1, OneChunkMore
<1>8. x.number >= TotalChunks[x.file]
  BY <1>2, <1>3, <1>6, <1>7 DEF Completes
<1>9. x.number = TotalChunks[x.file]
  BY <1>3, <1>8
<1>10. Pushed(entry[l], x) = FirstChunks(x.file, TotalChunks[x.file])
  BY <1>2, <1>6, <1>7, <1>9 DEF Pushed
<1>11. QED
  BY <1>2, <1>6, <1>9, <1>10 DEF FirstChunks, SplitIntoChunks

LEMMA SpokenPictures ==
  ASSUME RelayTypes, PicturesAreWhole, NEW w, NEW item, NEW frames, Speaks(w, item, frames)
  PROVE  PicturesAreWhole'
<1>1. /\ w \in Window /\ messages' = [messages EXCEPT ![w] = Append(@, item)] /\ mixed' = mixed
      /\ item.type = "image" => item.chunks = SplitIntoChunks(item.id)
  BY DEF Speaks
<1>2. ASSUME NEW v \in Window, NEW i \in 1..Len(messages'[v]), messages'[v][i].type = "image",
             v \notin mixed'
      PROVE  messages'[v][i].chunks = SplitIntoChunks(messages'[v][i].id)
  <2>1. messages \in [Window -> Seq(Message)]
    BY DEF RelayTypes
  <2>2. v # w => messages'[v] = messages[v]
    BY <1>1, <2>1
  <2>3. v = w => messages'[v] = Append(messages[v], item)
    BY <1>1, <2>1
  <2>4. \/ i \in 1..Len(messages[v]) /\ messages'[v][i] = messages[v][i]
        \/ messages'[v][i] = item
    BY <2>2, <2>3, Panes
  <2>5. QED
    BY <1>1, <1>2, <2>4 DEF PicturesAreWhole
<1>3. QED
  BY <1>2 DEF PicturesAreWhole

\* A window's lines are those it had, and at most one more.
LEMMA TakenLines ==
  ASSUME RelayTypes, NEW l, NEW x, NEW on, Takes(l, x, on), NEW w \in Window,
         NEW i \in 1..Len(messages'[w])
  PROVE  \/ i \in 1..Len(messages[w]) /\ messages'[w][i] = messages[w][i]
         \/ /\ w = l[2] /\ i = Len(messages[w]) + 1
            /\ \E m \in Message :
                 /\ messages'[w][i] = m /\ Shows(entry[l], x, m)
                 /\ x.type = "chat" => \A k \in 1..Len(messages[w]) : messages[w][k].id # x.id
<1>1. CASE w # l[2] \/ messages' = messages
  BY <1>1, TakenFrame
<1>2. ASSUME w = l[2], NEW m \in Message, Shows(entry[l], x, m),
             messages'[l[2]] = Append(messages[l[2]], m)
      PROVE  \/ i \in 1..Len(messages[w]) /\ messages'[w][i] = messages[w][i]
             \/ i = Len(messages[w]) + 1 /\ messages'[w][i] = m
  BY <1>2, Panes
<1>3. QED
  BY <1>1, <1>2, TakenPane

LEMMA TakenPictures ==
  ASSUME RelayTypes, NothingIsMadeUp, ChunksFollow, PicturesAreWhole,
         NEW l, NEW x, NEW on, Takes(l, x, on)
  PROVE  PicturesAreWhole'
<1>1. mixed \subseteq mixed'
  BY DEF Takes
<1>2. ASSUME NEW w \in Window, NEW i \in 1..Len(messages'[w]), messages'[w][i].type = "image",
             w \notin mixed'
      PROVE  messages'[w][i].chunks = SplitIntoChunks(messages'[w][i].id)
  <2>1. CASE i \in 1..Len(messages[w]) /\ messages'[w][i] = messages[w][i]
    BY <1>1, <1>2, <2>1 DEF PicturesAreWhole
  <2>2. ASSUME w = l[2], NEW m \in Message, messages'[w][i] = m, Shows(entry[l], x, m)
        PROVE  m.chunks = SplitIntoChunks(m.id)
    <3>1. x.type = "chat" => x.type # "image"
      OBVIOUS
    <3>2. /\ x.type = "chunk" /\ Completes(entry[l])
          /\ m = Image(entry[l].current, Pushed(entry[l], x))
      BY <1>2, <2>2, <3>1 DEF Shows
    <3>3. m.id = entry[l].current /\ m.chunks = Pushed(entry[l], x)
      BY <3>2 DEF Image
    <3>4. QED
      BY <1>1, <1>2, <2>2, <3>2, <3>3, LastChunk
  <2>3. QED
    BY <2>1, <2>2, TakenLines
<1>3. QED
  BY <1>2 DEF PicturesAreWhole

LEMMA LostPictures ==
  ASSUME PicturesAreWhole, Loses
  PROVE  PicturesAreWhole'
BY DEF Loses, PicturesAreWhole

-----------------------------------------------------------------------------
(* Lines are in the order of their sender.                                 *)

LEMMA SpokenLines ==
  ASSUME RelayTypes, NEW w, NEW item, NEW frames, Speaks(w, item, frames), NEW v \in Window,
         NEW i \in 1..Len(messages'[v])
  PROVE  \/ i \in 1..Len(messages[v]) /\ messages'[v][i] = messages[v][i]
         \/ v = w /\ i = Len(messages[v]) + 1 /\ messages'[v][i] = item
<1>1. w \in Window /\ messages' = [messages EXCEPT ![w] = Append(@, item)]
  BY DEF Speaks
<1>2. messages \in [Window -> Seq(Message)]
  BY DEF RelayTypes
<1>3. v # w => messages'[v] = messages[v]
  BY <1>1, <1>2
<1>4. v = w => messages'[v] = Append(messages[v], item)
  BY <1>1, <1>2
<1>5. QED
  BY <1>3, <1>4, Panes

LEMMA SpokenPane ==
  ASSUME RelayTypes, NothingIsMadeUp, PaneInOrder,
         NEW w, NEW item, NEW frames, Speaks(w, item, frames)
  PROVE  PaneInOrder'
<1>1. /\ w \in Window /\ item.from = w /\ mixed' = mixed /\ ~Recorded(sent[w], WasSent(item))
      /\ \A n \in 1..Len(frames) : Sender(frames[n]) = w /\ Named(frames[n]) = WasSent(item)
  BY DEF Speaks
<1>2. NothingIsMadeUp'
  BY SpokenGenuine
\* What was recorded before comes before what is said now.
<1>3. \A a : Recorded(sent[w], a) => a # WasSent(item) /\ Earlier(sent'[w], a, WasSent(item))
  BY <1>1, SpokenLogs
<1>4. ASSUME NEW v \in Window, NEW i \in 1..Len(messages[v])
      PROVE  messages[v][i].from \in Window /\ Recorded(sent[messages[v][i].from], WasSent(messages[v][i]))
  BY <1>4, Panes, Messages DEF NothingIsMadeUp
<1>5. ASSUME NEW l \in Link, NEW k \in 1..Len(wire[l])
      PROVE  Recorded(sent[Sender(wire[l][k])], Named(wire[l][k]))
  BY <1>5 DEF NothingIsMadeUp, Genuine
<1>6. \A s \in Window : \A a, b :
        Recorded(sent[s], a) /\ Recorded(sent[s], b) /\ Earlier(sent[s], a, b) =>
          Earlier(sent'[s], a, b)
  BY SpokenLogs
<1>7. ASSUME NEW v \in Window, NEW i \in 1..Len(messages'[v]), NEW k \in 1..Len(messages'[v]),
             i < k, messages'[v][i].from = messages'[v][k].from
      PROVE  /\ WasSent(messages'[v][i]) # WasSent(messages'[v][k])
             /\ v \notin mixed => Earlier(sent'[messages'[v][i].from], WasSent(messages'[v][i]),
                                          WasSent(messages'[v][k]))
  <2>1. Len(messages[v]) \in Nat /\ i \in Nat /\ k \in Nat
    BY Panes
  <2>2. i \in 1..Len(messages[v]) /\ messages'[v][i] = messages[v][i]
    BY <1>7, <2>1, SpokenLines
  <2>3. CASE k \in 1..Len(messages[v]) /\ messages'[v][k] = messages[v][k]
    BY <1>4, <1>6, <1>7, <2>2, <2>3 DEF PaneInOrder
  <2>4. CASE v = w /\ messages'[v][k] = item
    BY <1>1, <1>3, <1>4, <1>7, <2>2, <2>4
  <2>5. QED
    BY <2>3, <2>4, SpokenLines
\* A line somebody had, before a frame that is on its way now.
<1>8. ASSUME NEW v \in Window, NEW i \in 1..Len(messages[v]), NEW l \in Link,
             NEW k \in 1..Len(wire'[l]), messages[v][i].from = Sender(wire'[l][k]),
             k \in 1..Len(wire[l]) =>
               Earlier(sent[messages[v][i].from], WasSent(messages[v][i]), Named(wire[l][k]))
      PROVE  Earlier(sent'[messages[v][i].from], WasSent(messages[v][i]), Named(wire'[l][k]))
  <2>1. CASE k \in 1..Len(wire[l])
    <3>1. wire'[l][k] = wire[l][k]
      BY <2>1, SpokenWire
    <3>2. QED
      BY <1>4, <1>5, <1>6, <1>8, <2>1, <3>1
  <2>2. CASE k \notin 1..Len(wire[l])
    <3>1. PICK n \in 1..Len(frames) : wire'[l][k] = frames[n]
      BY <2>2, SpokenWire
    <3>2. Sender(wire'[l][k]) = w /\ Named(wire'[l][k]) = WasSent(item)
      BY <1>1, <3>1
    <3>3. QED
      BY <1>3, <1>4, <1>8, <3>2
  <2>3. QED
    BY <2>1, <2>2
<1>9. ASSUME NEW l \in Link, l[2] \notin mixed, NEW i \in 1..Len(messages'[l[2]]),
             NEW k \in 1..Len(wire'[l]), messages'[l[2]][i].from = Sender(wire'[l][k])
      PROVE  Earlier(sent'[messages'[l[2]][i].from], WasSent(messages'[l[2]][i]), Named(wire'[l][k]))
  <2>1. l[2] \in Window
    BY Links
  <2>2. Sender(wire'[l][k]) # l[2]
    BY <1>2 DEF NothingIsMadeUp, Genuine
  <2>3. i \in 1..Len(messages[l[2]]) /\ messages'[l[2]][i] = messages[l[2]][i]
    BY <1>1, <1>9, <2>1, <2>2, SpokenLines
  <2>4. k \in 1..Len(wire[l]) => wire'[l][k] = wire[l][k]
    BY SpokenWire
  <2>5. QED
    BY <1>8, <1>9, <2>1, <2>3, <2>4 DEF PaneInOrder
<1>10. ASSUME NEW j \in Joiner, NEW s \in Joiner, j # s, j \notin mixed,
              NEW i \in 1..Len(messages'[j]), NEW k \in 1..Len(wire'[Up(s)]),
              messages'[j][i].from = s
       PROVE  Earlier(sent'[s], WasSent(messages'[j][i]), Named(wire'[Up(s)][k]))
  <2>1. j \in Window /\ Up(s) \in Link /\ Up(s)[1] = s /\ Up(s)[2] = Owner
    BY Links
  <2>2. Sender(wire'[Up(s)][k]) = s
    BY <1>2, <2>1 DEF NothingIsMadeUp, Genuine
  <2>3. i \in 1..Len(messages[j]) /\ messages'[j][i] = messages[j][i]
    BY <1>1, <1>10, <2>1, SpokenLines
  <2>4. k \in 1..Len(wire[Up(s)]) =>
          Earlier(sent[messages[j][i].from], WasSent(messages[j][i]), Named(wire[Up(s)][k]))
    BY <1>10, <2>3 DEF PaneInOrder
  <2>5. QED
    BY <1>8, <1>10, <2>1, <2>2, <2>3, <2>4
<1>11. QED
  BY <1>1, <1>7, <1>9, <1>10 DEF PaneInOrder

\* In a window that was sent nothing mixed, a line is what its frame belongs to, and
\* comes before whatever the frame precedes.
LEMMA ShownIsNamed ==
  ASSUME RelayTypes, NothingIsMadeUp, ChunksFollow, NEW l, NEW x, NEW on, Takes(l, x, on),
         l[2] \notin mixed, NEW m \in Message, Shows(entry[l], x, m)
  PROVE  /\ m.from = Sender(x) /\ WasSent(m) = Named(x)
         /\ \A y \in Frame : /\ y.type = "chunk" => y.number \in 1..TotalChunks[y.file]
                             /\ Precedes(sent[m.from], x, y)
                             => Earlier(sent[m.from], WasSent(m), Named(y))
<1>1. CASE x.type = "chat" /\ m = x
  BY <1>1 DEF Sender, Named, WasSent, Precedes
<1>2. CASE x.type = "chunk" /\ Completes(entry[l]) /\ m = Image(entry[l].current, Pushed(entry[l], x))
  <2>1. x.file = entry[l].current /\ x.file \in File /\ x.number = TotalChunks[x.file]
    BY <1>2, LastChunk
  <2>2. m.from = SenderOf[x.file] /\ m.type = "image" /\ m.id = x.file
    BY <1>2, <2>1 DEF Image
  <2>3. m.from = Sender(x) /\ WasSent(m) = Named(x)
    BY <1>2, <2>2 DEF Sender, Named, WasSent
  <2>4. TotalChunks[x.file] \in Nat
    BY <2>1, RelayAssumption
  <2>5. ASSUME NEW y \in Frame, y.type = "chunk" => y.number \in 1..TotalChunks[y.file],
               y.file = x.file
        PROVE  ~(Number(x) < Number(y))
    BY <1>2, <2>1, <2>4, <2>5 DEF Number
  <2>6. QED
    BY <2>3, <2>5 DEF Precedes
<1>3. QED
  BY <1>1, <1>2 DEF Shows

LEMMA TakenLinePlace ==
  ASSUME RelayTypes, NothingIsMadeUp, AnnouncedOnce, PaneInOrder, ChunksFollow,
         NEW l, NEW x, NEW on, Takes(l, x, on), NEW m \in Message, Shows(entry[l], x, m),
         x.type = "chat" => \A k \in 1..Len(messages[l[2]]) : messages[l[2]][k].id # x.id,
         NEW i \in 1..Len(messages[l[2]]), messages[l[2]][i].from = m.from
  PROVE  /\ WasSent(messages[l[2]][i]) # WasSent(m)
         /\ l[2] \notin mixed => Earlier(sent[m.from], WasSent(messages[l[2]][i]), WasSent(m))
<1>1. /\ l \in Link /\ l[2] \in Window /\ x = wire[l][1] /\ 1 \in 1..Len(wire[l])
      /\ entry[l] \in FileEntry
  BY TakenFrame
<1>2. messages[l[2]][i] \in Message
  BY <1>1, Panes
<1>3. WasSent(messages[l[2]][i]) # WasSent(m)
  <2>1. CASE x.type = "chat" /\ m = x
    BY <2>1 DEF WasSent
  <2>2. CASE /\ x.type = "chunk" /\ Completes(entry[l]) /\ entry[l].current \in File
             /\ m = Image(entry[l].current, Pushed(entry[l], x))
    <3>1. m.type = "image" /\ m.id = entry[l].current /\ m.from = SenderOf[entry[l].current]
      BY <2>2 DEF Image
    <3>2. entry[l].current # NoFile
      BY <2>2, RelayAssumption
    <3>3. m.from # l[2]
      BY <1>1, <3>1, <3>2 DEF NothingIsMadeUp
    <3>4. messages[l[2]][i].type = "image" => messages[l[2]][i].id # m.id
      BY <1>1, <3>1, <3>3 DEF AnnouncedOnce
    <3>5. QED
      BY <3>1, <3>4 DEF WasSent
  <2>3. QED
    BY <2>1, <2>2 DEF Shows
<1>4. ASSUME l[2] \notin mixed
      PROVE  Earlier(sent[m.from], WasSent(messages[l[2]][i]), WasSent(m))
  <2>1. m.from = Sender(x) /\ WasSent(m) = Named(x)
    BY <1>4, ShownIsNamed
  <2>2. QED
    BY <1>1, <1>4, <2>1 DEF PaneInOrder
<1>5. QED
  BY <1>3, <1>4

LEMMA TakenPaneInOrder ==
  ASSUME RelayTypes, NothingIsMadeUp, NothingIsMadeUp', AnnouncedOnce, WireInOrder, PaneInOrder,
         ChunksFollow, NEW l, NEW x, NEW on, Takes(l, x, on)
  PROVE  PaneInOrder'
<1>1. /\ sent' = sent /\ mixed \subseteq mixed' /\ on \subseteq open /\ open \subseteq Joiner
      /\ l[2] # Owner => on = {}
      /\ l[2] = Owner => on = open \ {l[1]}
  BY DEF Takes, RelayTypes
<1>2. /\ l \in Link /\ l[2] \in Window /\ x \in Frame /\ x = wire[l][1] /\ 1 \in 1..Len(wire[l])
  BY TakenFrame
<1>3. ASSUME NEW d \in Link, NEW k \in 1..Len(wire[d])
      PROVE  /\ wire[d][k] \in Frame
             /\ wire[d][k].type = "chunk" => wire[d][k].number \in 1..TotalChunks[wire[d][k].file]
  BY <1>3, Queues DEF NothingIsMadeUp, Genuine
<1>4. ASSUME NEW w \in Window, NEW i \in 1..Len(messages'[w]), NEW k \in 1..Len(messages'[w]),
             i < k, messages'[w][i].from = messages'[w][k].from
      PROVE  /\ WasSent(messages'[w][i]) # WasSent(messages'[w][k])
             /\ w \notin mixed' => Earlier(sent[messages'[w][i].from], WasSent(messages'[w][i]),
                                           WasSent(messages'[w][k]))
  <2>1. Len(messages[w]) \in Nat /\ i \in Nat /\ k \in Nat
    BY Panes
  <2>2. i \in 1..Len(messages[w]) /\ messages'[w][i] = messages[w][i]
    BY <1>4, <2>1, TakenLines
  <2>3. CASE k \in 1..Len(messages[w]) /\ messages'[w][k] = messages[w][k]
    BY <1>1, <1>4, <2>2, <2>3 DEF PaneInOrder
  <2>4. ASSUME w = l[2], NEW m \in Message, messages'[w][k] = m, Shows(entry[l], x, m),
               x.type = "chat" => \A n \in 1..Len(messages[w]) : messages[w][n].id # x.id
        PROVE  /\ WasSent(messages[w][i]) # WasSent(m)
               /\ w \notin mixed => Earlier(sent[messages[w][i].from], WasSent(messages[w][i]),
                                            WasSent(m))
    <3>1. i \in 1..Len(messages[l[2]]) /\ messages[l[2]][i].from = m.from
      BY <1>4, <2>2, <2>4
    <3>2. x.type = "chat" => \A n \in 1..Len(messages[l[2]]) : messages[l[2]][n].id # x.id
      BY <2>4
    <3>3. QED
      BY <2>4, <3>1, <3>2, TakenLinePlace
  <2>5. QED
    BY <1>1, <2>2, <2>3, <2>4, TakenLines
<1>5. ASSUME NEW d \in Link, d[2] \notin mixed', NEW i \in 1..Len(messages'[d[2]]),
             NEW k \in 1..Len(wire'[d]), messages'[d[2]][i].from = Sender(wire'[d][k])
      PROVE  Earlier(sent[messages'[d[2]][i].from], WasSent(messages'[d[2]][i]), Named(wire'[d][k]))
  <2>1. d[2] \in Window /\ d[2] \notin mixed
    BY <1>1, <1>5, Links
  <2>2. CASE i \in 1..Len(messages[d[2]]) /\ messages'[d[2]][i] = messages[d[2]][i]
    <3>1. ASSUME NEW n \in 1..Len(wire[d]), wire'[d][k] = wire[d][n]
          PROVE  Earlier(sent[messages'[d[2]][i].from], WasSent(messages'[d[2]][i]), Named(wire'[d][k]))
      BY <1>5, <2>1, <2>2, <3>1 DEF PaneInOrder
    <3>2. CASE d # l /\ d[1] = Owner /\ d[2] \in on /\ wire'[d][k] = x
      <4>1. l[1] \in Joiner /\ l = Up(l[1]) /\ d[2] \in Joiner /\ Sender(x) = l[1]
        BY <3>2, TakenOn
      <4>2. d[2] # l[1]
        BY <1>1, <3>2
      <4>3. messages[d[2]][i].from = l[1]
        BY <1>5, <2>2, <3>2, <4>1
      <4>4. Earlier(sent[l[1]], WasSent(messages[d[2]][i]), Named(wire[Up(l[1])][1]))
        BY <1>2, <2>1, <2>2, <4>1, <4>2, <4>3 DEF PaneInOrder
      <4>5. QED
        BY <1>2, <2>2, <3>2, <4>1, <4>3, <4>4
    <3>3. (\E n \in 1..Len(wire[d]) : wire'[d][k] = wire[d][n])
            \/ (d # l /\ d[1] = Owner /\ d[2] \in on /\ wire'[d][k] = x)
      <4>1. CASE d = l
        BY <4>1, TakenWire
      <4>2. CASE d # l /\ d[1] = Owner /\ d[2] \in on
        BY <4>2, TakenWire
      <4>3. CASE d # l /\ ~(d[1] = Owner /\ d[2] \in on)
        BY <4>3, TakenWire
      <4>4. QED
        BY <4>1, <4>2, <4>3
    <3>4. QED
      BY <3>1, <3>2, <3>3
  <2>3. ASSUME d[2] = l[2], NEW m \in Message, messages'[d[2]][i] = m, Shows(entry[l], x, m)
        PROVE  Earlier(sent[m.from], WasSent(m), Named(wire'[d][k]))
    <3>1. /\ m.from = Sender(x) /\ WasSent(m) = Named(x)
          /\ \A y \in Frame : /\ y.type = "chunk" => y.number \in 1..TotalChunks[y.file]
                              /\ Precedes(sent[m.from], x, y)
                              => Earlier(sent[m.from], WasSent(m), Named(y))
      BY <2>1, <2>3, ShownIsNamed
    <3>2. CASE d = l
      <4>1. k + 1 \in 1..Len(wire[l]) /\ wire'[l][k] = wire[l][k + 1] /\ 1 < k + 1
        BY <1>2, <3>2, TakenWire
      <4>2. Sender(wire[l][k + 1]) = Sender(x)
        BY <1>5, <2>3, <3>1, <3>2, <4>1
      <4>3. Precedes(sent[m.from], x, wire[l][k + 1])
        BY <1>2, <3>1, <4>1, <4>2 DEF WireInOrder
      <4>4. /\ wire[l][k + 1] \in Frame
            /\ wire[l][k + 1].type = "chunk" =>
                 wire[l][k + 1].number \in 1..TotalChunks[wire[l][k + 1].file]
        BY <1>2, <1>3, <4>1
      <4>5. Earlier(sent[m.from], WasSent(m), Named(wire[l][k + 1]))
        BY <3>1, <4>3, <4>4
      <4>6. QED
        BY <3>2, <4>1, <4>5
    <3>3. CASE d # l
      <4>1. d[2] = Owner /\ d[1] # l[1]
        BY <1>2, <2>3, <3>3, Links
      <4>2. Sender(wire'[d][k]) = d[1]
        BY <4>1 DEF NothingIsMadeUp, Genuine
      <4>3. Sender(x) = l[1]
        BY <1>2, <2>3, <4>1 DEF NothingIsMadeUp, Genuine
      <4>4. QED
        BY <1>5, <2>3, <3>1, <4>1, <4>2, <4>3
    <3>4. QED
      BY <3>2, <3>3
  <2>4. QED
    BY <2>1, <2>2, <2>3, TakenLines
<1>6. ASSUME NEW j \in Joiner, NEW s \in Joiner, j # s, j \notin mixed',
             NEW i \in 1..Len(messages'[j]), NEW k \in 1..Len(wire'[Up(s)]),
             messages'[j][i].from = s
      PROVE  Earlier(sent[s], WasSent(messages'[j][i]), Named(wire'[Up(s)][k]))
  <2>1. j \in Window /\ j \notin mixed /\ Up(s) \in Link
    BY <1>1, <1>6, Links
  <2>2. PICK n \in 1..Len(wire[Up(s)]) : wire'[Up(s)][k] = wire[Up(s)][n]
    BY UpShrinks
  <2>3. CASE i \in 1..Len(messages[j]) /\ messages'[j][i] = messages[j][i]
    BY <1>6, <2>1, <2>2, <2>3 DEF PaneInOrder
  <2>4. ASSUME j = l[2], NEW m \in Message, messages'[j][i] = m, Shows(entry[l], x, m)
        PROVE  Earlier(sent[s], WasSent(m), Named(wire[Up(s)][n]))
    <3>1. /\ m.from = Sender(x) /\ WasSent(m) = Named(x)
          /\ \A y \in Frame : /\ y.type = "chunk" => y.number \in 1..TotalChunks[y.file]
                              /\ Precedes(sent[m.from], x, y)
                              => Earlier(sent[m.from], WasSent(m), Named(y))
      BY <2>1, <2>4, ShownIsNamed
    <3>2. l = Down(j)
      BY <1>2, <2>4, Links
    <3>3. m.from = s
      BY <1>6, <2>4
    <3>4. Precedes(sent[s], x, wire[Up(s)][n])
      BY <1>2, <3>1, <3>2, <3>3 DEF WireInOrder
    <3>5. /\ wire[Up(s)][n] \in Frame
          /\ wire[Up(s)][n].type = "chunk" =>
               wire[Up(s)][n].number \in 1..TotalChunks[wire[Up(s)][n].file]
      BY <1>3, <2>1
    <3>6. QED
      BY <3>1, <3>3, <3>4, <3>5
  <2>5. QED
    BY <2>1, <2>2, <2>3, <2>4, TakenLines
<1>7. QED
  BY <1>1, <1>4, <1>5, <1>6 DEF PaneInOrder

LEMMA LostPane ==
  ASSUME RelayTypes, PaneInOrder, Loses
  PROVE  PaneInOrder'
<1>1. /\ \A l \in Link : wire'[l] = wire[l] \/ Len(wire'[l]) = 0
      /\ UNCHANGED <<messages, sent, mixed>>
  BY DEF Loses
<1>2. \A l \in Link : \A k \in 1..Len(wire'[l]) : wire'[l] = wire[l]
  BY <1>1
<1>3. QED
  BY <1>1, <1>2, Links DEF PaneInOrder

-----------------------------------------------------------------------------
(* The invariant, and what it gives.                                       *)

LEMMA RelayBegins ==
  ASSUME RelayInit
  PROVE  RelayInv
<1>1. /\ open = {} /\ wire = [l \in Link |-> <<>>] /\ entry = [l \in Link |-> NoEntry]
      /\ messages = [w \in Window |-> <<>>] /\ sent = [w \in Window |-> <<>>]
      /\ announced = [j \in Joiner |-> NoFile] /\ mixed = {}
  BY DEF RelayInit
<1>2. NoEntry \in FileEntry /\ NoEntry.current = NoFile
  BY DEF NoEntry, FileEntry
<1>3. RelayTypes
  BY <1>1, <1>2 DEF RelayTypes
<1>4. /\ \A l \in Link : 1..Len(wire[l]) = {}
      /\ \A w \in Window : 1..Len(messages[w]) = {} /\ 1..Len(sent[w]) = {}
      /\ \A j \in Joiner : announced[j] = NoFile
      /\ \A l \in Link : entry[l].current = NoFile
  BY <1>1, <1>2
<1>5. NothingIsMadeUp
  BY <1>4 DEF NothingIsMadeUp
<1>6. AnnouncedOnce
  BY <1>4, Links DEF AnnouncedOnce
<1>7. WireInOrder
  BY <1>4, Links DEF WireInOrder
<1>8. PaneInOrder
  BY <1>4, Links DEF PaneInOrder
<1>9. ChunksFollow
  BY <1>4, Links DEF ChunksFollow
<1>10. PicturesAreWhole
  BY <1>4 DEF PicturesAreWhole
<1>11. QED
  BY <1>3, <1>5, <1>6, <1>7, <1>8, <1>9, <1>10 DEF RelayInv

LEMMA RelayStep ==
  ASSUME RelayInv, [RelayNext]_relayVars
  PROVE  RelayInv'
<1>1. /\ RelayTypes /\ NothingIsMadeUp /\ AnnouncedOnce /\ WireInOrder /\ PaneInOrder
      /\ ChunksFollow /\ PicturesAreWhole
  BY DEF RelayInv
<1>2. ASSUME NEW w, NEW item, NEW frames, Speaks(w, item, frames)
      PROVE  RelayInv'
  BY <1>1, <1>2, SpokenTypes, SpokenGenuine, SpokenOnce, SpokenWireInOrder, SpokenPane,
     SpokenChunks, SpokenPictures DEF RelayInv
<1>3. ASSUME NEW l, NEW x, NEW on, Takes(l, x, on)
      PROVE  RelayInv'
  <2>1. RelayTypes' /\ NothingIsMadeUp' /\ WireInOrder' /\ ChunksFollow' /\ PicturesAreWhole'
    BY <1>1, <1>3, TakenTypes, TakenGenuine, TakenWireInOrder, TakenChunks, TakenPictures
  <2>2. AnnouncedOnce' /\ PaneInOrder'
    BY <1>1, <1>3, <2>1, TakenOnce, TakenPaneInOrder
  <2>3. QED
    BY <2>1, <2>2 DEF RelayInv
<1>4. ASSUME Loses
      PROVE  RelayInv'
  BY <1>1, <1>4, LostTypes, LostGenuine, LostOnce, LostWireInOrder, LostPane, LostChunks,
     LostPictures DEF RelayInv
<1>5. QED
  BY <1>1, <1>2, <1>3, <1>4, StepsAre

\* What OrderOfASenderIsKept says of a pair of lines.
LEMMA LinesHaveTheirPlaces ==
  ASSUME RelayInv
  PROVE  OrderOfASenderIsKept
<1>1. RelayTypes /\ NothingIsMadeUp /\ PaneInOrder
  BY DEF RelayInv
<1> SUFFICES ASSUME NEW w \in Window, NEW s \in Window
             PROVE  LET Place(m) == CHOOSE n \in 1..Len(sent[s]) : WasSent(sent[s][n]) = WasSent(m) IN
                    \A i, k \in 1..Len(messages[w]) :
                      i < k /\ messages[w][i].from = s /\ messages[w][k].from = s =>
                        /\ Place(messages[w][i]) # Place(messages[w][k])
                        /\ w \notin mixed => Place(messages[w][i]) < Place(messages[w][k])
  BY Zenon DEF OrderOfASenderIsKept
<1> DEFINE Place(m) == CHOOSE n \in 1..Len(sent[s]) : WasSent(sent[s][n]) = WasSent(m)
<1>2. ASSUME NEW m, Recorded(sent[s], WasSent(m))
      PROVE  Place(m) \in 1..Len(sent[s]) /\ WasSent(sent[s][Place(m)]) = WasSent(m)
  BY <1>2 DEF Recorded
<1>3. ASSUME NEW i \in 1..Len(messages[w]), NEW k \in 1..Len(messages[w]),
             i < k, messages[w][i].from = s, messages[w][k].from = s
      PROVE  /\ Place(messages[w][i]) # Place(messages[w][k])
             /\ w \notin mixed => Place(messages[w][i]) < Place(messages[w][k])
  <2>1. Recorded(sent[s], WasSent(messages[w][i])) /\ Recorded(sent[s], WasSent(messages[w][k]))
    BY <1>1, <1>3 DEF NothingIsMadeUp
  <2>2. /\ WasSent(messages[w][i]) # WasSent(messages[w][k])
        /\ w \notin mixed => Earlier(sent[s], WasSent(messages[w][i]), WasSent(messages[w][k]))
    BY <1>1, <1>3 DEF PaneInOrder
  <2>3. /\ Place(messages[w][i]) \in 1..Len(sent[s])
        /\ WasSent(sent[s][Place(messages[w][i])]) = WasSent(messages[w][i])
        /\ Place(messages[w][k]) \in 1..Len(sent[s])
        /\ WasSent(sent[s][Place(messages[w][k])]) = WasSent(messages[w][k])
    BY <1>2, <2>1
  <2> HIDE DEF Place
  <2>4. QED
    BY <2>2, <2>3 DEF Earlier
<1>4. QED
  BY <1>3, Zenon

LEMMA RelayInvariant == RelaySpec => []RelayInv
<1>1. RelayInit => RelayInv
  BY RelayBegins
<1>2. RelayInv /\ [RelayNext]_relayVars => RelayInv'
  BY RelayStep
<1>3. QED
  BY <1>1, <1>2, PTL DEF RelaySpec

\* The picture somebody sees is the one that was sent, in any room, with files of any
\* number of chunks and any number of channels that close: handleIncomingData counts the
\* chunks and cannot tell whose they are, what makes the count enough is the order of the
\* frames on a channel.
THEOREM PicturesArriveWhole == RelaySpec => []PicturesAreWhole
<1>1. RelayInv => PicturesAreWhole
  BY DEF RelayInv
<1>2. QED
  BY <1>1, RelayInvariant, PTL

\* No window shows anything twice or gets its own back through the owner's window, and
\* one that was sent no mixed pictures shows what a member sends in the order it was sent
\* in: relaying a frame before handling it keeps the order of each sender.
THEOREM SendersKeepTheirOrder == RelaySpec => []OrderOfASenderIsKept
<1>1. RelayInv => OrderOfASenderIsKept
  BY LinesHaveTheirPlaces
<1>2. QED
  BY <1>1, RelayInvariant, PTL

=============================================================================
