-------------------------- MODULE SirenConfigProofs --------------------------
(***************************************************************************)
(* Proofs about SirenConfig, for every list of keys and every file.        *)
(***************************************************************************)
EXTENDS SirenConfig, TLAPS

\* The types, and a file that is being read has a name.
Types == TypeOK /\ (at \in {"sections", "keys"} => source \in Sources)

\* Past the division the frame has its size.
FrameMade ==
  at \in {"fork", "processor", "preprocessor", "listen", "asserted"} =>
    settings.mic_frame_length \in 1..1000 /\ frameSize = FrameSize(settings)

\* Nothing has been stored yet.
Untouched == \A k \in Keys : cfg[k] = <<>>

\* Whatever was stored is one file's, the one being read.
OneOrigin == \A k \in Keys : cfg[k] = <<>> \/ cfg[k] = <<source>>

\* The keys before n are stored, unless the code does without them ...
StoredBefore(n) ==
  \A i \in DOMAIN Fields :
    i < n /\ Fields[i].lack = "fail" =>
      cfg[Fields[i].key] = <<source>> \/ Odd(Fields[i], "empty")

\* ... and those from n on are not.
ClearFrom(n) == \A i \in DOMAIN Fields : i >= n => cfg[Fields[i].key] = <<>>

\* A file is read only over a configuration that is untouched.
ReadIntoClear ==
  /\ at = "open" => status = "OK" /\ Untouched
  /\ at = "backup" /\ status = "OK" => Untouched
  /\ at = "sections" => status = "OK" /\ Untouched /\ pos = 1
  /\ at = "keys" => status = "OK" /\ ClearFrom(pos) /\ StoredBefore(pos)

\* Only a file that was read to the end is accepted.
ReadToTheEnd ==
  /\ at \in {"loaded", "judge"} /\ status = "OK" => StoredBefore(Len(Fields) + 1)
  /\ Accepted => StoredBefore(Len(Fields) + 1)

IInv == Types /\ FrameMade /\ OneOrigin /\ ReadIntoClear /\ ReadToTheEnd

-----------------------------------------------------------------------------

FieldType == [key : STRING, list : BOOLEAN, lack : {"fail", "keep", "default"}]

\* What the proofs use of the list of keys.
LEMMA FieldFacts ==
  /\ Len(Fields) \in Nat /\ DOMAIN Fields = 1..Len(Fields)
  /\ \A i \in DOMAIN Fields : Fields[i] \in FieldType /\ Fields[i].key \in Keys
<1>1. Fields \in Seq(FieldType)
  BY FieldsAssumption DEF FieldType
<1>2. Len(Fields) \in Nat /\ DOMAIN Fields = 1..Len(Fields)
  BY <1>1
<1>3. \A i \in DOMAIN Fields : Fields[i] \in FieldType
  BY <1>1, <1>2
<1> QED
  BY <1>2, <1>3 DEF Keys

\* The types hold in the beginning.
LEMMA InitTypes == Init => Types
<1> SUFFICES ASSUME Init PROVE Types
  OBVIOUS
<1>1. NoFile \in File
  BY DEF NoFile, File, Settings
<1>2. NoFile.settings \in Settings
  BY <1>1 DEF File
<1>3. cfg \in [Keys -> Seq(Sources)]
  BY DEF Init
<1> QED
  BY <1>1, <1>2, <1>3, FieldFacts DEF Init, Types, TypeOK, Places

\* A frame of a configuration with a frame length of at most a second has a size.
LEMMA FrameSizeIsNat ==
  ASSUME NEW s \in Settings, s.mic_frame_length \in 1..1000
  PROVE  FramesPerSecond(s) \in Nat \ {0} /\ FrameSize(s) \in Nat
<1>1. \A l \in 1..1000 : 1000 \div l \in Nat \ {0}
  BY SMTT(30)
<1>2. FramesPerSecond(s) \in Nat \ {0}
  BY <1>1 DEF FramesPerSecond
<1>3. s.mic_channel_num \in Nat /\ s.mic_sample_rate \in Nat /\ s.mic_audio_byte \in Nat
  BY DEF Settings
<1>4. \A a \in Nat, b \in Nat \ {0} : a \div b \in Nat
  OBVIOUS
<1>5. \A a, b \in Nat : a * b \in Nat
  OBVIOUS
<1>6. s.mic_channel_num * s.mic_sample_rate * s.mic_audio_byte \in Nat
  BY <1>3, <1>5
<1> QED
  BY <1>2, <1>4, <1>6 DEF FrameSize

\* Reading a file that is allowed gives a file.
LEMMA LoadTypes ==
  ASSUME NEW from \in Sources, NEW f \in File, Load(from, f)
  PROVE  /\ at' = "sections" /\ source' \in Sources /\ file' \in File
         /\ pos' \in 1..(Len(Fields) + 1)
  BY FieldFacts DEF Load

\* A block stores an origin, and a number where a number belongs.
LEMMA ReadKeyTypes == Types /\ ReadKey => Types'
<1> SUFFICES ASSUME Types, ReadKey PROVE Types'
  OBVIOUS
<1> DEFINE f == Fields[pos]
<1>1. f \in FieldType /\ f.key \in Keys /\ pos \in 1..Len(Fields) /\ source \in Sources
  BY FieldFacts DEF ReadKey, Types
<1>2. /\ source' = source /\ file' = file /\ frameSize' = frameSize
      /\ at = "keys" /\ at \in Places
  BY DEF ReadKey, Types, TypeOK
<1>3. CASE /\ ~Odd(f, "bad")
           /\ cfg' = [cfg EXCEPT ![f.key] = Stored(f)]
           /\ settings' = IF f.key \in SettingKeys
                            THEN [settings EXCEPT ![f.key] = file.settings[f.key]]
                            ELSE settings
           /\ pos' = pos + 1
           /\ UNCHANGED <<at, status>>
  <2>1. Stored(f) \in Seq(Sources)
    <3>1. cfg[f.key] \in Seq(Sources)
      BY <1>1 DEF Types, TypeOK
    <3>2. <<source>> \in Seq(Sources) /\ Append(cfg[f.key], source) \in Seq(Sources)
      BY <3>1, <1>1
    <3> QED
      BY <3>1, <3>2 DEF Stored
  <2>2. cfg' \in [Keys -> Seq(Sources)]
    BY <1>3, <2>1 DEF Types, TypeOK
  <2>3. settings' \in Settings
    <3>1. file.settings \in Settings /\ settings \in Settings
      BY DEF Types, TypeOK, File
    <3> QED
      BY <1>3, <3>1 DEF Settings, SettingKeys
  <2>4. pos' \in 1..(Len(Fields) + 1)
    BY <1>1, <1>3, FieldFacts
  <2> QED
    BY <1>1, <1>2, <1>3, <2>2, <2>3, <2>4 DEF Types, TypeOK
<1>4. CASE /\ Odd(f, "bad") /\ f.lack = "fail"
           /\ Fail
           /\ UNCHANGED <<pos, configVars>>
  BY <1>2, <1>4 DEF Types, TypeOK, Fail, configVars, Places
<1>5. CASE /\ Odd(f, "bad") /\ f.lack # "fail"
           /\ cfg' = [cfg EXCEPT ![f.key] = IF f.lack = "default" THEN <<>> ELSE @]
           /\ pos' = pos + 1
           /\ UNCHANGED <<at, status, settings>>
  <2>1. cfg' \in [Keys -> Seq(Sources)]
    <3>1. (IF f.lack = "default" THEN <<>> ELSE cfg[f.key]) \in Seq(Sources)
      BY <1>1 DEF Types, TypeOK
    <3> QED
      BY <1>5, <3>1 DEF Types, TypeOK
  <2>2. pos' \in 1..(Len(Fields) + 1)
    BY <1>1, <1>5, FieldFacts
  <2> QED
    BY <1>1, <1>2, <1>5, <2>1, <2>2 DEF Types, TypeOK
<1> QED
  BY <1>3, <1>4, <1>5 DEF ReadKey

\* Every step keeps the types.
LEMMA StepTypes == Types /\ FrameMade /\ [Next]_vars => Types'
<1> SUFFICES ASSUME Types, FrameMade, [Next]_vars PROVE Types'
  OBVIOUS
<1> USE DEF Types, TypeOK
<1>1. CASE OpenUser
  <2>1. PICK f \in UserFiles :
          \/ f.form = "unreadable" /\ at' = "backup" /\ UNCHANGED fileVars
          \/ f.form # "unreadable" /\ Load("user", f)
    BY <1>1 DEF OpenUser
  <2>2. f \in File /\ "user" \in Sources
    BY FilesAssumption DEF Sources
  <2>3. status' = status /\ cfg' = cfg /\ settings' = settings /\ frameSize' = frameSize
    BY <1>1 DEF OpenUser, configVars
  <2> QED
    BY <2>1, <2>2, <2>3, LoadTypes DEF fileVars, Places
<1>2. CASE OpenBackup
  <2>1. PICK f \in BackupFiles :
          \/ f.form = "unreadable" /\ status' = "OPEN_FILE" /\ at' = "judge"
               /\ UNCHANGED fileVars
          \/ f.form # "unreadable" /\ status = "OK" /\ Load("backup", f)
               /\ UNCHANGED status
          \/ f.form # "unreadable" /\ status # "OK" /\ at' = "judge"
               /\ UNCHANGED <<fileVars, status>>
    BY <1>2 DEF OpenBackup
  <2>2. f \in File /\ "backup" \in Sources
    BY FilesAssumption DEF Sources
  <2>3. cfg' = cfg /\ settings' = settings /\ frameSize' = frameSize
    BY <1>2 DEF OpenBackup, configVars
  <2> QED
    BY <2>1, <2>2, <2>3, LoadTypes DEF fileVars, Places
<1>3. CASE Loaded \/ Judge
  BY <1>3 DEF Loaded, Judge, fileVars, configVars, Places
<1>4. CASE FindSections \/ KeysRead
  BY <1>4 DEF FindSections, KeysRead, Fail, fileVars, configVars, Places
<1>5. CASE ReadKey
  BY <1>5, ReadKeyTypes
<1>6. CASE MakeFrameBuffers \/ ForkBase
  <2>1. CASE settings.mic_frame_length \in 1..1000
    <3>1. FrameSize(settings) \in Nat
      BY <2>1, FrameSizeIsNat
    <3> QED
      BY <1>6, <2>1, <3>1 DEF MakeFrameBuffers, ForkBase, fileVars, configVars, Places
  <2>2. CASE settings.mic_frame_length \notin 1..1000
    <3>1. at = "frames" /\ at' = "crashed" /\ frameSize' = frameSize
      BY <1>6, <2>2 DEF MakeFrameBuffers, ForkBase, FrameMade
    <3> QED
      BY <1>6, <3>1 DEF MakeFrameBuffers, ForkBase, fileVars, configVars, Places
  <2> QED
    BY <2>1, <2>2
<1>7. CASE InitProcessor \/ InitPreprocessor \/ FirstFrame
  BY <1>7 DEF InitProcessor, InitPreprocessor, FirstFrame, fileVars, configVars, Places
<1>8. CASE UNCHANGED vars
  BY <1>8 DEF vars
<1> QED
  BY <1>1, <1>2, <1>3, <1>4, <1>5, <1>6, <1>7, <1>8 DEF Next

-----------------------------------------------------------------------------
(* The inductive invariant *)

\* It holds in the beginning.
LEMMA InitInv == Init => IInv
<1> SUFFICES ASSUME Init PROVE IInv
  OBVIOUS
<1>1. Types
  BY InitTypes
<1> QED
  BY <1>1 DEF Init, IInv, FrameMade, OneOrigin, ReadIntoClear, ReadToTheEnd, Untouched,
              Accepted

\* Only two steps touch the size of a frame, and none the settings after that.
LEMMA StepFrame == Types /\ FrameMade /\ [Next]_vars => FrameMade'
<1> SUFFICES ASSUME Types, FrameMade, [Next]_vars PROVE FrameMade'
  OBVIOUS
<1>1. CASE OpenUser \/ OpenBackup \/ Loaded \/ Judge \/ FindSections \/ ReadKey
             \/ KeysRead
  <2>1. at' \in {"backup", "sections", "judge", "frames", "aborted", "loaded", "keys"}
    BY <1>1 DEF OpenUser, OpenBackup, Loaded, Judge, FindSections, ReadKey, KeysRead,
                Load, Fail
  <2> QED
    BY <2>1 DEF FrameMade
<1>2. CASE MakeFrameBuffers \/ ForkBase
  BY <1>2 DEF MakeFrameBuffers, ForkBase, FrameMade, configVars, FrameSize,
              FramesPerSecond
<1>3. CASE InitProcessor \/ InitPreprocessor \/ FirstFrame
  BY <1>3 DEF InitProcessor, InitPreprocessor, FirstFrame, FrameMade, configVars,
              FrameSize, FramesPerSecond
<1>4. CASE UNCHANGED vars
  BY <1>4 DEF vars, FrameMade, FrameSize, FramesPerSecond
<1> QED
  BY <1>1, <1>2, <1>3, <1>4 DEF Next

Kept == ReadIntoClear /\ ReadToTheEnd /\ OneOrigin

\* What was stored stays stored.
LEMMA SameConfig ==
  ASSUME cfg' = cfg, source' = source, file' = file
  PROVE  /\ OneOrigin => OneOrigin'
         /\ Untouched => Untouched'
         /\ \A n \in Nat : StoredBefore(n) => StoredBefore(n)'
  BY DEF OneOrigin, Untouched, StoredBefore, Odd

\* A file is read over an untouched configuration.
LEMMA LoadKeeps ==
  ASSUME Untouched, status = "OK", UNCHANGED <<status, configVars>>,
         NEW from, NEW f, Load(from, f)
  PROVE  Kept'
  BY DEF Load, Untouched, Kept, OneOrigin, ReadIntoClear, ReadToTheEnd, Accepted,
         configVars

\* Choosing a file.
LEMMA OpenKeeps == Types /\ Kept /\ (OpenUser \/ OpenBackup) => Kept'
<1> SUFFICES ASSUME Types, Kept, OpenUser \/ OpenBackup PROVE Kept'
  OBVIOUS
<1>1. CASE OpenUser
  <2>1. PICK f \in UserFiles :
          \/ f.form = "unreadable" /\ at' = "backup" /\ UNCHANGED fileVars
          \/ f.form # "unreadable" /\ Load("user", f)
    BY <1>1 DEF OpenUser
  <2>2. Untouched /\ status = "OK" /\ UNCHANGED <<status, configVars>>
    BY <1>1 DEF OpenUser, Kept, ReadIntoClear
  <2>3. CASE at' = "backup" /\ UNCHANGED fileVars
    BY <2>2, <2>3, SameConfig DEF Kept, ReadIntoClear, ReadToTheEnd, Accepted, fileVars,
       configVars
  <2> QED
    BY <2>1, <2>2, <2>3, LoadKeeps
<1>2. CASE OpenBackup
  <2>1. PICK f \in BackupFiles :
          \/ f.form = "unreadable" /\ status' = "OPEN_FILE" /\ at' = "judge"
               /\ UNCHANGED fileVars
          \/ f.form # "unreadable" /\ status = "OK" /\ Load("backup", f)
               /\ UNCHANGED status
          \/ f.form # "unreadable" /\ status # "OK" /\ at' = "judge"
               /\ UNCHANGED <<fileVars, status>>
    BY <1>2 DEF OpenBackup
  <2>2. at = "backup" /\ UNCHANGED configVars
    BY <1>2 DEF OpenBackup
  <2>3. CASE at' = "judge" /\ status' # "OK" /\ UNCHANGED fileVars
    BY <2>2, <2>3, SameConfig DEF Kept, ReadIntoClear, ReadToTheEnd, Accepted, fileVars,
       configVars
  <2>4. CASE status = "OK" /\ Load("backup", f) /\ UNCHANGED status
    <3>1. Untouched
      BY <2>2, <2>4 DEF Kept, ReadIntoClear
    <3> QED
      BY <2>2, <2>4, <3>1, LoadKeeps
  <2> QED
    BY <2>1, <2>3, <2>4
<1> QED
  BY <1>1, <1>2

\* One key.
LEMMA ReadKeyKeeps == Types /\ Kept /\ ReadKey => Kept'
<1> SUFFICES ASSUME Types, Kept, ReadKey PROVE Kept'
  OBVIOUS
<1> DEFINE f == Fields[pos]
<1>1. /\ f.key \in Keys /\ pos \in DOMAIN Fields /\ pos \in Nat
      /\ \A i \in DOMAIN Fields : i \in Nat /\ Fields[i].key \in Keys
      /\ \A i \in DOMAIN Fields : Fields[i].key = f.key => i = pos
  BY FieldFacts, FieldsAssumption DEF ReadKey
<1>2. /\ source' = source /\ file' = file /\ at = "keys" /\ status = "OK"
      /\ ClearFrom(pos) /\ StoredBefore(pos) /\ OneOrigin
  BY DEF ReadKey, Kept, ReadIntoClear
<1>3. cfg \in [Keys -> Seq(Sources)] /\ cfg[f.key] = <<>>
  BY <1>1, <1>2 DEF Types, TypeOK, ClearFrom
<1>4. ASSUME NEW v, cfg' = [cfg EXCEPT ![f.key] = v], v = <<>> \/ v = <<source>>,
             f.lack = "fail" => v = <<source>> \/ Odd(f, "empty"),
             pos' = pos + 1, UNCHANGED <<at, status>>
      PROVE  Kept'
  <2>1. cfg'[f.key] = v /\ \A k \in Keys : k # f.key => cfg'[k] = cfg[k]
    BY <1>1, <1>3, <1>4
  <2>2. ClearFrom(pos)'
    BY <1>1, <1>2, <1>4, <2>1 DEF ClearFrom
  <2>3. StoredBefore(pos)'
    <3> SUFFICES ASSUME NEW i \in DOMAIN Fields, i < pos', Fields[i].lack = "fail"
                 PROVE  cfg'[Fields[i].key] = <<source>> \/ Odd(Fields[i], "empty")
      BY <1>2 DEF StoredBefore, Odd
    <3>1. CASE i = pos
      BY <1>4, <2>1, <3>1
    <3>2. CASE i # pos
      BY <1>1, <1>2, <1>4, <2>1, <3>2 DEF StoredBefore
    <3> QED
      BY <3>1, <3>2
  <2>4. OneOrigin'
    BY <1>2, <1>4, <2>1 DEF OneOrigin
  <2> QED
    BY <1>2, <1>4, <2>2, <2>3, <2>4 DEF Kept, ReadIntoClear, ReadToTheEnd, Accepted
<1>5. CASE ~Odd(f, "bad") /\ cfg' = [cfg EXCEPT ![f.key] = Stored(f)]
             /\ pos' = pos + 1 /\ UNCHANGED <<at, status>>
  <2>1. Append(<<>>, source) = <<source>>
    OBVIOUS
  <2>2. Stored(f) = <<source>> \/ (Stored(f) = <<>> /\ Odd(f, "empty"))
    BY <1>3, <2>1 DEF Stored
  <2> QED
    BY <1>4, <1>5, <2>2
<1>6. CASE Odd(f, "bad") /\ f.lack = "fail" /\ Fail /\ UNCHANGED <<pos, configVars>>
  BY <1>2, <1>6, SameConfig DEF Fail, configVars, Kept, ReadIntoClear, ReadToTheEnd,
     Accepted
<1>7. CASE /\ Odd(f, "bad") /\ f.lack # "fail" /\ pos' = pos + 1
           /\ cfg' = [cfg EXCEPT ![f.key] = IF f.lack = "default" THEN <<>> ELSE @]
           /\ UNCHANGED <<at, status, settings>>
  <2>1. cfg' = [cfg EXCEPT ![f.key] = <<>>]
    BY <1>3, <1>7
  <2> QED
    BY <1>4, <1>7, <2>1
<1> QED
  BY <1>5, <1>6, <1>7 DEF ReadKey

\* All the other steps.
LEMMA StepKeeps == Types /\ Kept /\ [Next]_vars => Kept'
<1> SUFFICES ASSUME Types, Kept, [Next]_vars PROVE Kept'
  OBVIOUS
<1> USE DEF Kept, ReadIntoClear, ReadToTheEnd, Accepted
<1>1. CASE OpenUser \/ OpenBackup
  BY <1>1, OpenKeeps
<1>2. CASE ReadKey
  BY <1>2, ReadKeyKeeps
<1>3. CASE FindSections
  <2>1. cfg' = cfg /\ source' = source /\ file' = file /\ pos' = pos
    BY <1>3 DEF FindSections, fileVars, configVars
  <2>2. at = "sections" /\ Untouched /\ pos = 1 /\ status = "OK"
    BY <1>3 DEF FindSections
  <2>3. CASE at' = "keys" /\ UNCHANGED status
    <3>1. ClearFrom(pos)' /\ StoredBefore(pos)'
      BY <2>1, <2>2, FieldFacts DEF ClearFrom, StoredBefore, Untouched
    <3> QED
      BY <2>1, <2>2, <2>3, <3>1, SameConfig
  <2>4. CASE Fail
    BY <2>1, <2>4, SameConfig DEF Fail
  <2> QED
    BY <1>3, <2>3, <2>4 DEF FindSections
<1>4. CASE KeysRead
  <2>1. cfg' = cfg /\ source' = source /\ file' = file /\ pos = Len(Fields) + 1
    BY <1>4, FieldFacts DEF KeysRead, Types, TypeOK, fileVars, configVars
  <2>2. StoredBefore(Len(Fields) + 1)
    BY <1>4, <2>1 DEF KeysRead
  <2> QED
    BY <1>4, <2>1, <2>2, SameConfig, FieldFacts DEF KeysRead
<1>5. CASE Loaded \/ Judge
  <2>1. cfg' = cfg /\ source' = source /\ file' = file /\ status' = status
    BY <1>5 DEF Loaded, Judge, fileVars, configVars
  <2> QED
    BY <1>5, <2>1, SameConfig, FieldFacts DEF Loaded, Judge
<1>6. CASE MakeFrameBuffers \/ ForkBase \/ InitProcessor \/ InitPreprocessor \/ FirstFrame
  <2>1. cfg' = cfg /\ source' = source /\ file' = file /\ status' = status
    BY <1>6 DEF MakeFrameBuffers, ForkBase, InitProcessor, InitPreprocessor, FirstFrame,
                fileVars, configVars
  <2>2. /\ Accepted
        /\ at' \in {"fork", "crashed", "processor", "silent", "preprocessor", "refused",
                    "listen", "up", "asserted"}
    BY <1>6 DEF MakeFrameBuffers, ForkBase, InitProcessor, InitPreprocessor, FirstFrame
  <2> QED
    BY <2>1, <2>2, SameConfig, FieldFacts
<1>7. CASE UNCHANGED vars
  <2>1. cfg' = cfg /\ source' = source /\ file' = file /\ pos' = pos /\ at' = at
        /\ status' = status
    BY <1>7 DEF vars
  <2>2. ClearFrom(pos) => ClearFrom(pos)'
    BY <2>1 DEF ClearFrom
  <2>3. StoredBefore(pos) => StoredBefore(pos)'
    BY <2>1 DEF StoredBefore, Odd
  <2> QED
    BY <2>1, <2>2, <2>3, SameConfig, FieldFacts
<1> QED
  BY <1>1, <1>2, <1>3, <1>4, <1>5, <1>6, <1>7 DEF Next

-----------------------------------------------------------------------------
(* What the stages found in order *)

Checked ==
  /\ at \in {"preprocessor", "listen", "asserted", "up"} =>
       /\ ~Empty("alg_aec_mics") /\ ~Empty("alg_sl_mics")
       /\ settings.mic_num > 0 => ~Empty("alg_mic_pos")
  /\ at \in {"listen", "asserted", "up"} =>
       Memories /\ settings.mic_num > 0 /\ settings.mic_audio_byte \in {3, 4}
  /\ at = "asserted" =>
       frameSize % (settings.mic_audio_byte * settings.mic_num) # 0

\* A stage that lets the start go on has found what it needs.
LEMMA StepChecked == Types /\ Checked /\ [Next]_vars => Checked'
<1> SUFFICES ASSUME Types, Checked, [Next]_vars PROVE Checked'
  OBVIOUS
<1>0. settings.mic_num \in Nat
  BY DEF Types, TypeOK, Settings
<1>1. CASE OpenUser \/ OpenBackup \/ Loaded \/ Judge \/ FindSections \/ ReadKey
             \/ KeysRead \/ MakeFrameBuffers \/ ForkBase
  <2>1. at' \in {"backup", "sections", "judge", "frames", "aborted", "loaded", "keys",
                 "fork", "crashed", "processor"}
    BY <1>1 DEF OpenUser, OpenBackup, Loaded, Judge, FindSections, ReadKey, KeysRead,
                MakeFrameBuffers, ForkBase, Load, Fail
  <2> QED
    BY <2>1 DEF Checked
<1>2. CASE InitProcessor
  BY <1>0, <1>2 DEF InitProcessor, Checked, Empty, configVars
<1>3. CASE InitPreprocessor
  BY <1>0, <1>3 DEF InitPreprocessor, Checked, Memories, Empty, configVars
<1>4. CASE FirstFrame
  BY <1>4 DEF FirstFrame, Checked, Memories, Empty, configVars
<1>5. CASE UNCHANGED vars
  BY <1>5 DEF vars, Checked, Memories, Empty
<1> QED
  BY <1>1, <1>2, <1>3, <1>4, <1>5 DEF Next

\* An exact multiple divides without a rest ...
LEMMA Multiple ==
  ASSUME NEW k \in Nat, NEW m \in Nat \ {0}
  PROVE  (k * m) \div m = k /\ (k * m) % m = 0
  OBVIOUS

\* ... what divides without a rest is one ...
LEMMA Exact ==
  ASSUME NEW a \in Nat, NEW m \in Nat \ {0}, a % m = 0
  PROVE  a \div m \in Nat /\ a = (a \div m) * m
  OBVIOUS

\* ... and a product of positive numbers is positive.
LEMMA Positive ==
  ASSUME NEW a \in Nat \ {0}, NEW b \in Nat \ {0}
  PROVE  a * b \in Nat \ {0}
  OBVIOUS

\* A product of natural numbers is one: for the sizes that may be zero.
LEMMA Product == ASSUME NEW a \in Nat, NEW b \in Nat PROVE a * b \in Nat
  OBVIOUS

\* n microphones with r samples of b bytes, cut into m frames.
LEMMA WholeFrame ==
  ASSUME NEW n \in Nat \ {0}, NEW r \in Nat, NEW b \in Nat \ {0}, NEW m \in Nat \ {0},
         r % m = 0
  PROVE  ((n * r * b) \div m) % (b * n) = 0
<1>1. PICK q \in Nat : r = q * m
  BY Exact
<1>2. PICK w \in Nat \ {0} : w = b * n
  BY Positive
<1>3. PICK k \in Nat : k = q * w
  BY Product
<1>4. n * r * b = k * m
  BY <1>1, <1>2, <1>3
<1>5. (k * m) \div m = k /\ k % w = 0
  BY <1>3, Multiple
<1> QED
  BY <1>2, <1>4, <1>5

\* The frame of a regular configuration holds whole samples of all microphones, for
\* every number of microphones, width and rate.
LEMMA RegularFrame ==
  ASSUME NEW s \in Settings, s.mic_frame_length \in 1..1000, s.mic_num > 0,
         s.mic_audio_byte > 0, Regular(s)
  PROVE  FrameSize(s) % (s.mic_audio_byte * s.mic_num) = 0
<1>1. FramesPerSecond(s) \in Nat \ {0}
  BY FrameSizeIsNat
<1>2. /\ s.mic_num \in Nat \ {0} /\ s.mic_audio_byte \in Nat \ {0}
      /\ s.mic_sample_rate \in Nat /\ s.mic_channel_num = s.mic_num
      /\ s.mic_sample_rate % FramesPerSecond(s) = 0
  BY DEF Settings, Regular
<1>3. ((s.mic_num * s.mic_sample_rate * s.mic_audio_byte) \div FramesPerSecond(s))
        % (s.mic_audio_byte * s.mic_num) = 0
  BY <1>1, <1>2, WholeFrame
<1> QED
  BY <1>2, <1>3 DEF FrameSize

-----------------------------------------------------------------------------
(* The theorems *)

\* The invariant holds of every reachable state.
THEOREM ConfigInvariant == Spec => [](IInv /\ Checked)
<1>1. Init => IInv /\ Checked
  BY InitInv DEF Init, Checked
<1>2. IInv /\ Checked /\ [Next]_vars => (IInv /\ Checked)'
  <2> SUFFICES ASSUME IInv, Checked, [Next]_vars PROVE (IInv /\ Checked)'
    OBVIOUS
  <2>1. Types' /\ FrameMade' /\ Checked'
    BY StepTypes, StepFrame, StepChecked DEF IInv
  <2>2. Kept'
    BY StepKeeps DEF IInv, Kept
  <2> QED
    BY <2>1, <2>2 DEF IInv, Kept
<1> QED
  BY <1>1, <1>2, PTL DEF Spec

\* The types, for every list of keys and every file.
THEOREM ConfigTypeOK == Spec => []TypeOK
<1>1. IInv => TypeOK
  BY DEF IInv, Types
<1> QED
  BY <1>1, ConfigInvariant, PTL

\* Whatever the user's file and the backup hold, and wherever the one breaks off, a
\* configuration is never a mixture of the two (parseConfigFile).
THEOREM OneFile == Spec => []ConfigFromOneFile
<1>1. IInv => ConfigFromOneFile
  <2> SUFFICES ASSUME IInv, NEW k \in Keys, NEW l \in Keys
               PROVE  /\ Len(cfg[k]) <= 1
                      /\ cfg[k] # <<>> /\ cfg[l] # <<>> => cfg[k] = cfg[l]
    BY DEF ConfigFromOneFile
  <2>1. \A j \in Keys : cfg[j] = <<>> \/ cfg[j] = <<source>>
    BY DEF IInv, OneOrigin
  <2>2. Len(cfg[k]) <= 1
    <3>1. CASE cfg[k] = <<>>
      BY <3>1
    <3>2. CASE cfg[k] = <<source>>
      BY <3>2
    <3> QED
      BY <2>1, <3>1, <3>2
  <2>3. cfg[k] # <<>> /\ cfg[l] # <<>> => cfg[k] = cfg[l]
    BY <2>1, Zenon
  <2> QED
    BY <2>2, <2>3
<1> QED
  BY <1>1, ConfigInvariant, PTL

\* What loadConfigFromJSON accepts has every key that has no default.
THEOREM Complete == Spec => []NothingLeftUnset
<1>1. IInv => NothingLeftUnset
  <2> SUFFICES ASSUME IInv, Accepted, NEW i \in DOMAIN Fields, Fields[i].lack = "fail"
               PROVE  cfg[Fields[i].key] = <<source>> \/ Odd(Fields[i], "empty")
    BY DEF NothingLeftUnset
  <2>1. i < Len(Fields) + 1
    BY FieldFacts
  <2> QED
    BY <2>1 DEF IInv, ReadToTheEnd, StoredBefore
<1> QED
  BY <1>1, ConfigInvariant, PTL

\* With every regular configuration the assertion of r2mem_i on the first frame holds,
\* and no configuration at all brings the base up without echo cancellation.
THEOREM ListeningIsSound == Spec => []ListensProperly
<1>1. IInv /\ Checked => (at = "asserted" => ~Regular(settings))
  <2> SUFFICES ASSUME IInv, Checked, at = "asserted", Regular(settings) PROVE FALSE
    OBVIOUS
  <2>1. /\ settings \in Settings /\ settings.mic_frame_length \in 1..1000
        /\ frameSize = FrameSize(settings)
    BY DEF IInv, Types, TypeOK, FrameMade
  <2>2. /\ settings.mic_num > 0 /\ settings.mic_audio_byte > 0
        /\ frameSize % (settings.mic_audio_byte * settings.mic_num) # 0
    BY DEF Checked
  <2> QED
    BY <2>1, <2>2, RegularFrame
<1>2. IInv /\ Checked =>
        (at \in {"listen", "up", "asserted"} =>
           settings.alg_aec /\ \A k \in MicLists : cfg[k] = <<source>>)
  <2> SUFFICES ASSUME IInv, Checked, at \in {"listen", "up", "asserted"},
                      NEW k \in MicLists
               PROVE  settings.alg_aec /\ cfg[k] = <<source>>
    BY DEF MicLists
  <2>1. k \in Keys
    BY FieldsAssumption
  <2>2. settings.alg_aec /\ cfg[k] # <<>>
    BY DEF Checked, Memories, Empty, MicLists
  <2> QED
    BY <2>1, <2>2 DEF IInv, OneOrigin
<1>3. IInv /\ Checked => ListensProperly
  BY <1>1, <1>2 DEF ListensProperly
<1> QED
  BY <1>3, ConfigInvariant, PTL
=============================================================================
