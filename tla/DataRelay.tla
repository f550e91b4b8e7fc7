------------------------------- MODULE DataRelay -------------------------------
(***************************************************************************)
(* Chat and pictures on the data channels of a room: handleSendImage, the  *)
(* chat handler and handleIncomingData of App.tsx, fileTransfer.ts, and    *)
(* sendRaw of webrtcSession.ts.                                            *)
(*                                                                         *)
(* Only the owner opens sessions with those who join, so there is one      *)
(* ordered channel per joiner, and the owner's window passes every frame   *)
(* on to the other joiners before it looks at it itself.  A frame does not *)
(* say who it comes from: a window files it under the peer whose channel   *)
(* it came on, which for a joiner is always the owner.                     *)
(*                                                                         *)
(* The frames of one picture are written without a pause.  A picture is    *)
(* named once in a run; chat messages carry the millisecond they were sent *)
(* in, the time of two members may be the same.                            *)
(***************************************************************************)
EXTENDS Naturals, Sequences

CONSTANTS
  Owner,
  Joiner,
  File,
  SenderOf,     \* who has the file to send
  TotalChunks,  \* of a file
  Writer,       \* bound: the members that write messages
  Stamp,        \* the ids of chat messages
  NoFile,
  NoState,
  MaxCloses     \* bound on the channels that close

ASSUME RelayAssumption ==
  /\ Owner \notin Joiner
  /\ Writer \subseteq Joiner \cup {Owner}
  /\ SenderOf \in [File -> Joiner \cup {Owner}]
  /\ TotalChunks \in [File -> Nat]
  /\ Stamp \cap File = {}
  /\ NoFile \notin File

VARIABLES
  open,        \* the joiners whose channel with the owner is open
  wire,        \* frames on their way, per sender and receiver
  entry,       \* fileEntriesRef, per peer and window: current file and assembler
  messages,    \* the chat pane of each window
  sent,        \* history: what each member sent, in order
  announced,   \* history: the last FILE_META put on the channel to a joiner since it
               \* opened
  mixed,       \* history: the joiners sent a chunk of another file than that
  closes

relayVars == <<open, wire, entry, messages, sent, announced, mixed, closes>>

Window == Joiner \cup {Owner}

\* The two directions of the channels: from a peer to a window.
Link == {l \in Window \X Window : l[1] # l[2] /\ Owner \in {l[1], l[2]}}

IsOpen(l) == {l[1], l[2]} \cap open # {}

-----------------------------------------------------------------------------
(* Frames and messages.                                                    *)

Meta(f) == [type |-> "FILE_META", file |-> f]
Chunk(f, n) == [type |-> "chunk", file |-> f, number |-> n]
Chat(from, id) == [type |-> "chat", from |-> from, id |-> id]

\* What a window shows of a picture; whom it names as the sender is left out.
Image(f, chunks) == [type |-> "image", from |-> SenderOf[f], id |-> f, chunks |-> chunks]

\* splitIntoChunks: an empty file has no chunk.
SplitIntoChunks(f) == [n \in 1..TotalChunks[f] |-> Chunk(f, n)]

WasSent(m) == <<m.type, m.id>>

NoEntry == [current |-> NoFile, states |-> [f \in File |-> NoState]]

\* A slip PicturesAreWhole would show: an unfinished file stays the current one.
RegisterMeta_KeepsCurrent(e, f) ==
  [current |-> IF e.current = NoFile THEN f ELSE e.current,
   states |-> [e.states EXCEPT ![f] = <<>>]]

\* registerMeta, and the entry's current file.
RegisterMeta(e, f) == [current |-> f, states |-> [e.states EXCEPT ![f] = <<>>]]

\* What pushChunk has then, if the assembler still knows the current file.
Pushed(e, chunk) == Append(e.states[e.current], chunk)

Receiving(e) == e.current # NoFile /\ e.states[e.current] # NoState

\* pushChunk counts the chunks; whose they are it cannot tell.
Completes(e) == Receiving(e) /\ Len(e.states[e.current]) + 1 >= TotalChunks[e.current]

EntryAfter(e, frame) ==
  CASE frame.type = "FILE_META" -> RegisterMeta(e, frame.file)
    [] frame.type = "chunk" /\ Completes(e) ->
         [current |-> NoFile, states |-> [e.states EXCEPT ![e.current] = NoState]]
    [] frame.type = "chunk" /\ Receiving(e) /\ ~Completes(e) ->
         [e EXCEPT !.states[e.current] = Pushed(e, frame)]
    [] OTHER -> e

\* A chat message is shown unless one with its id is; a picture when it is complete.
MessagesAfter(shown, e, frame) ==
  CASE frame.type = "chunk" /\ Completes(e) -> Append(shown, Image(e.current, Pushed(e, frame)))
    [] frame.type = "chat" /\ \A i \in 1..Len(shown) : shown[i].id # frame.id -> Append(shown, frame)
    [] OTHER -> shown

-----------------------------------------------------------------------------
\* sendRaw, of several frames on several channels: nothing on one that is not open.
Mixes(j, frames) ==
  \E i \in 1..Len(frames) :
    /\ frames[i].type = "chunk"
    /\ frames[i].file # announced[j]
    /\ \A k \in 1..(i - 1) : frames[k].type # "FILE_META"

SendRaw(links, frames, rest) ==
  LET reached == {l \in links : IsOpen(l)}
      noted == {j \in Joiner : <<Owner, j>> \in reached} IN
  /\ wire' = [l \in Link |-> IF l \in reached THEN rest[l] \o frames ELSE rest[l]]
  /\ announced' = [j \in Joiner |->
       IF j \in noted /\ frames # <<>> /\ Head(frames).type = "FILE_META"
         THEN Head(frames).file ELSE announced[j]]
  /\ mixed' = mixed \cup {j \in noted : Mixes(j, frames)}

LinksFrom(w) == {l \in Link : l[1] = w}

\* handleSendImage, from the moment the file has been read.
HandleSendImage(f) ==
  LET w == SenderOf[f] IN
  /\ <<"image", f>> \notin {WasSent(sent[w][i]) : i \in 1..Len(sent[w])}
  /\ SendRaw(LinksFrom(w), <<Meta(f)>> \o SplitIntoChunks(f), wire)
  /\ messages' = [messages EXCEPT ![w] = Append(@, Image(f, SplitIntoChunks(f)))]
  /\ sent' = [sent EXCEPT ![w] = Append(@, Image(f, SplitIntoChunks(f)))]
  /\ UNCHANGED <<open, entry, closes>>

\* onSendMessage: the sender sees the message before anybody has it.
OnSendMessage(w, id) ==
  /\ <<"chat", id>> \notin {WasSent(sent[w][i]) : i \in 1..Len(sent[w])}
  /\ SendRaw(LinksFrom(w), <<Chat(w, id)>>, wire)
  /\ messages' = [messages EXCEPT ![w] = Append(@, Chat(w, id))]
  /\ sent' = [sent EXCEPT ![w] = Append(@, Chat(w, id))]
  /\ UNCHANGED <<open, entry, closes>>

\* A slip OrderOfASenderIsKept would show: the sender gets its own frame back.
RelayedTo_Everybody(s, w) == IF w = Owner THEN LinksFrom(Owner) ELSE {}

\* The channels handleIncomingData passes a frame on to.
RelayedTo(s, w) == IF w = Owner THEN LinksFrom(Owner) \ {<<Owner, s>>} ELSE {}

\* handleIncomingData.
HandleIncomingData(s, w) ==
  LET l == <<s, w>> IN
  /\ l \in Link
  /\ wire[l] # <<>>
  /\ SendRaw(RelayedTo(s, w), <<Head(wire[l])>>, [wire EXCEPT ![l] = Tail(@)])
  /\ entry' = [entry EXCEPT ![l] = EntryAfter(@, Head(wire[l]))]
  /\ messages' = [messages EXCEPT ![w] = MessagesAfter(@, entry[l], Head(wire[l]))]
  /\ UNCHANGED <<open, sent, closes>>

\* The timer of an unfinished file.
TimesOut(l, f) ==
  /\ entry[l].states[f] # NoState
  /\ entry' = [entry EXCEPT ![l].states[f] = NoState]
  /\ UNCHANGED <<open, wire, messages, sent, announced, mixed, closes>>

\* A session is closed, with what is on its channel, or its channel opens.  The
\* entries outlive the session.
ChannelCloses(j) ==
  /\ j \in open
  /\ closes < MaxCloses
  /\ closes' = closes + 1
  /\ open' = open \ {j}
  /\ wire' = [l \in Link |-> IF j \in {l[1], l[2]} THEN <<>> ELSE wire[l]]
  /\ announced' = [announced EXCEPT ![j] = NoFile]
  /\ UNCHANGED <<entry, messages, sent, mixed>>

ChannelOpens(j) ==
  /\ j \notin open
  /\ open' = open \cup {j}
  /\ UNCHANGED <<wire, entry, messages, sent, announced, mixed, closes>>

RelayInit ==
  /\ open = {}
  /\ wire = [l \in Link |-> <<>>]
  /\ entry = [l \in Link |-> NoEntry]
  /\ messages = [w \in Window |-> <<>>]
  /\ sent = [w \in Window |-> <<>>]
  /\ announced = [j \in Joiner |-> NoFile]
  /\ mixed = {}
  /\ closes = 0

RelayNext ==
  \/ \E f \in File : HandleSendImage(f)
  \/ \E w \in Writer, id \in Stamp : OnSendMessage(w, id)
  \/ \E s, w \in Window : HandleIncomingData(s, w)
  \/ \E l \in Link, f \in File : TimesOut(l, f)
  \/ \E j \in Joiner : ChannelCloses(j)
  \/ \E j \in Joiner : ChannelOpens(j)

RelaySpec == RelayInit /\ [][RelayNext]_relayVars

-----------------------------------------------------------------------------
(* Properties.                                                             *)

\* The picture somebody sees is the one that was sent, through lost channels and
\* timeouts, always in the owner's window, which has a channel per sender; in a
\* joiner's as long as every chunk sent to it followed the announcement of its own
\* file down its one channel.
PicturesAreWhole ==
  \A w \in Window : \A i \in 1..Len(messages[w]) :
    messages[w][i].type = "image" /\ w \notin mixed =>
      messages[w][i].chunks = SplitIntoChunks(messages[w][i].id)

\* A window shows nothing twice and gets nothing of its own back, whatever is lost or
\* mixed; and unless it was sent mixed pictures, it shows what one member sends in the
\* order it was sent in.
OrderOfASenderIsKept ==
  \A w, s \in Window :
    LET Place(m) == CHOOSE n \in 1..Len(sent[s]) : WasSent(sent[s][n]) = WasSent(m) IN
    \A i, k \in 1..Len(messages[w]) :
      i < k /\ messages[w][i].from = s /\ messages[w][k].from = s =>
        /\ Place(messages[w][i]) # Place(messages[w][k])
        /\ w \notin mixed => Place(messages[w][i]) < Place(messages[w][k])

=============================================================================
