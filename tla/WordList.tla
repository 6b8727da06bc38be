------------------------------ MODULE WordList ------------------------------
(***************************************************************************)
(* The wake words of the application: the list SirenProxy keeps, and the   *)
(* list the engine in the base listens for.  Every change sends the whole  *)
(* list through requestQueue, the request channel and processQueue, the    *)
(* last of which it shares with the recorded frames.  No answer comes back *)
(* and no queue reports an item it drops, so nothing but the next list     *)
(* repairs what was lost.                                                  *)
(*                                                                         *)
(* add_vt_word and remove_vt_word do not lock vt_words: they are taken to  *)
(* be called by one thread.  The queues are rings (Ring, LFQueueRing), each *)
(* stands for its tickets not yet popped; the two threads of the base that *)
(* push to processQueue are taken not to overlap.                          *)
(***************************************************************************)
EXTENDS WordCodec, Ring

CONSTANTS
  Fillings,      \* what the application may write into its siren_vt_word
  Defaults,      \* def_vt_configs: the words of the configuration, in order
  RequestSlots,  \* entries of requestQueue
  ChannelRoom,   \* requests in the socket and in the hand of the thread that writes
  PackageSlots,  \* entries of processQueue
  MaxCalls,      \* bound on the application's calls
  MaxFrames      \* bound on recorded frames

ASSUME SlotsAreCounted ==
  /\ RequestSlots \in Nat \ {0}
  /\ ChannelRoom \in Nat \ {0}
  /\ PackageSlots \in Nat \ {0}

\* The application's strings hold no NUL: strcmp and the reader of the message stop
\* at one.
ASSUME WordsAreWords ==
  /\ \A w \in Fillings : IsWord(w)
  /\ Defaults \in Seq(Range(Defaults))

VARIABLES
  word,      \* the siren_vt_word the application passes to add_vt_word
  vt_words,  \* SirenProxy's list
  result,    \* what the last call returned
  requests,  \* requestQueue
  channel,   \* the request channel
  packages,  \* processQueue
  engine,    \* m_pWordLst, the words given to the engine
  overflowed, \* a push has found its slot taken, at either queue
  serial,    \* how many lists have been pushed
  shown,     \* the number of the list the engine has
  calls, frames

vars == <<word, vt_words, result, requests, channel, packages, engine,
          overflowed, serial, shown, calls, frames>>

Types == 1 .. 4   \* VT_TYPE_AWAKE, VT_TYPE_SLEEP, VT_TYPE_HOTWORD, VT_TYPE_OTHER
Names == {f.vt_word : f \in Fillings}

Nothing == [len |-> 0, data |-> <<>>]
Frame == [kind |-> "frame", serial |-> 0, msg |-> Nothing]
Surplus == [kind |-> "surplus", serial |-> 0, msg |-> Nothing]
Sync(words) == [kind |-> "sync", serial |-> serial + 1, msg |-> AllocateMessageFromVTWord(words)]
IsSync(p) == p.kind = "sync"

Push(queue, item, slots) == PushTo(queue, item, slots, Surplus)

\* init loads the words of the configuration before the first request can arrive.
Init ==
  /\ word \in Fillings
  /\ vt_words = <<>> /\ result = "none"
  /\ requests = <<>> /\ channel = <<>> /\ packages = <<>>
  /\ engine = Defaults
  /\ overflowed = FALSE /\ serial = 0 /\ shown = 0
  /\ calls = 0 /\ frames = 0

---------------------------------------------------------------------------
(* The application and SirenProxy *)

\* The application writes the structure anew.
Fill ==
  /\ calls < MaxCalls
  /\ word' \in Fillings
  /\ UNCHANGED <<vt_words, result, requests, channel, packages, engine, overflowed, serial,
                 shown, calls, frames>>

\* The positions strcmp finds the name at.
HasVTWord(name) == {i \in DOMAIN vt_words : vt_words[i].vt_word = name}

\* The whole list is pushed; push does not say when it drops it.
PushList(words) ==
  /\ requests' = Push(requests, Sync(words), RequestSlots)
  /\ overflowed' = (overflowed \/ Len(requests) >= RequestSlots)
  /\ serial' = serial + 1

Call(answer) ==
  /\ calls < MaxCalls
  /\ calls' = calls + 1
  /\ result' = answer
  /\ UNCHANGED <<channel, packages, engine, shown, frames>>

Illegal(w) == w.vt_type \notin Types \/ w.vt_word = <<>>

AddRefused(answer) ==
  /\ Call(answer)
  /\ UNCHANGED <<word, vt_words, requests, overflowed, serial>>

\* An empty phone is logged, and refused only by pinyin2Phoneme.
AddError ==
  /\ \/ Illegal(word)
     \/ ~Illegal(word) /\ HasVTWord(word.vt_word) = {} /\ ~HasPhoneme(word.vt_phone)
  /\ AddRefused("SIREN_VT_ERROR")

AddDup ==
  /\ ~Illegal(word)
  /\ HasVTWord(word.vt_word) # {}
  /\ AddRefused("SIREN_VT_DUP")

Spelt(w) == [w EXCEPT !.vt_phone = Pinyin2Phoneme(w.vt_phone)]

\* The phonemes and the default settings are written into the caller's structure.
WriteBack(added) == word' = added

WithDefaults(w, pinyin) ==
  [w EXCEPT !.alg = [avg |-> DefaultScores(pinyin).avg, min |-> DefaultScores(pinyin).min,
                     flags |-> "default", nnet_path |-> <<>>]]

AddOk(use_default_settings) ==
  LET named == Spelt(word)
      added == IF use_default_settings THEN WithDefaults(named, word.vt_phone) ELSE named
  IN /\ ~Illegal(word)
     /\ HasVTWord(word.vt_word) = {}
     /\ HasPhoneme(word.vt_phone)
     /\ WriteBack(added)
     /\ vt_words' = Append(vt_words, added)
     /\ PushList(vt_words')
     /\ Call("SIREN_VT_OK")

AddVTWord == AddError \/ AddDup \/ \E d \in BOOLEAN : AddOk(d)

RemoveRefused(name) ==
  /\ HasVTWord(name) = {}
  /\ Call(IF vt_words = <<>> THEN "SIREN_VT_ERROR" ELSE "SIREN_VT_NO_EXIT")
  /\ UNCHANGED <<word, vt_words, requests, overflowed, serial>>

RemoveOk(name) ==
  \E i \in HasVTWord(name) :
    /\ \A j \in HasVTWord(name) : i <= j
    /\ vt_words' = RemoveAt(vt_words, i)
    /\ PushList(vt_words')
    /\ Call("SIREN_VT_OK")
    /\ UNCHANGED word

RemoveVTWord == \E name \in Names : RemoveRefused(name) \/ RemoveOk(name)

\* requestThreadHandler: a null is logged.
RequestSkip ==
  /\ requests # <<>> /\ ~IsSync(Head(requests))
  /\ requests' = Tail(requests)
  /\ UNCHANGED <<word, vt_words, result, channel, packages, engine, overflowed, serial,
                 shown, calls, frames>>

\* requestThreadHandler: the write blocks while the socket is full.
RequestWrite ==
  /\ requests # <<>> /\ IsSync(Head(requests))
  /\ Len(channel) < ChannelRoom
  /\ channel' = Append(channel, Head(requests))
  /\ requests' = Tail(requests)
  /\ UNCHANGED <<word, vt_words, result, packages, engine, overflowed, serial, shown,
                 calls, frames>>

---------------------------------------------------------------------------
(* The base *)

\* Mutant: the package points into the message just taken, which is freed after this step;
\* the next message of its length is allocated in its place.
EnqueueUncopied(package) ==
  /\ packages' = Push([i \in DOMAIN packages |->
                        IF IsSync(packages[i]) THEN package ELSE packages[i]],
                      package, PackageSlots)
  /\ overflowed' = (overflowed \/ Len(packages) >= PackageSlots)

\* processQueue.push of a copy.
Enqueue(package) ==
  /\ packages' = Push(packages, package, PackageSlots)
  /\ overflowed' = (overflowed \/ Len(packages) >= PackageSlots)

\* responseThreadHandler: the message is copied and queued.
BaseTake ==
  /\ channel # <<>>
  /\ channel' = Tail(channel)
  /\ Enqueue(Head(channel))
  /\ UNCHANGED <<word, vt_words, result, requests, engine, serial, shown, calls,
                 frames>>

\* loopRecording queues a frame.
FrameArrives ==
  /\ frames < MaxFrames
  /\ frames' = frames + 1
  /\ Enqueue(Frame)
  /\ UNCHANGED <<word, vt_words, result, requests, channel, engine, serial, shown,
                 calls>>

\* processThreadHandler: a null is logged, a frame has nothing to do with the words.
ProcessOther ==
  /\ packages # <<>> /\ ~IsSync(Head(packages))
  /\ packages' = Tail(packages)
  /\ UNCHANGED <<word, vt_words, result, requests, channel, engine, overflowed, serial,
                 shown, calls, frames>>

\* Mutant: an empty list is an error like any other.
SyncableNonEmpty(ret) == ret = 0

\* processThreadHandler takes an empty list as well.
Syncable(ret) == ret \in {0, -2}

\* syncVTWord: the words of the configuration, then the application's.
SyncVTWord(words) == Defaults \o words

\* processThreadHandler on a list: what cannot be unpacked is logged and forgotten.
ProcessSync ==
  /\ packages # <<>> /\ IsSync(Head(packages))
  /\ packages' = Tail(packages)
  /\ LET unpacked == GetVTWordFromMessage(Head(packages).msg)
     IN IF Syncable(unpacked.ret)
        THEN /\ engine' = SyncVTWord(unpacked.words)
             /\ shown' = Head(packages).serial
        ELSE UNCHANGED <<engine, shown>>
  /\ UNCHANGED <<word, vt_words, result, requests, channel, overflowed, serial, calls,
                 frames>>

Next ==
  \/ Fill \/ AddVTWord \/ RemoveVTWord \/ RequestSkip \/ RequestWrite
  \/ BaseTake \/ FrameArrives \/ ProcessOther \/ ProcessSync

Spec == Init /\ [][Next]_vars

---------------------------------------------------------------------------
(* Properties *)

Quiet == requests = <<>> /\ channel = <<>> /\ \A i \in DOMAIN packages : ~IsSync(packages[i])

\* Once the newest list has arrived the engine listens for the words of the
\* configuration and for exactly the words, phonemes, scores and paths SirenProxy keeps,
\* in its order: packing and unpacking at siren_channel.cpp:83 and :209 agree on every
\* length and offset.  The newest list does arrive, unless a queue has overflowed.  And
\* at no time, not even between a remove_vt_word and the add_vt_word that brings the
\* name back, does the engine have two words of the application with one name.
EngineFollows ==
  /\ shown = serial => engine = Defaults \o vt_words
  /\ Quiet /\ ~overflowed => shown = serial
  /\ \A i, j \in Len(Defaults) + 1 .. Len(engine) :
       engine[i].vt_word = engine[j].vt_word => i = j

\* Until a queue has overflowed each list the process thread takes is newer than the one
\* the engine has: none is taken twice and no older one comes late, although the reader's
\* buffer is used again for every message.  An overflow may put a list behind newer ones.
ListsOnlyGetNewer ==
  [][ProcessSync /\ ~overflowed => Head(packages).serial > shown]_vars
=============================================================================
