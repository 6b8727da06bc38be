---------------------------- MODULE SirenConfig ----------------------------
(***************************************************************************)
(* The start of BlackSiren: SirenConfigurationManager::parseConfigFile     *)
(* (src/siren_config.cpp) reads the user's file or the backup, both        *)
(* processes compute the size of an audio frame from it, and the base sets *)
(* up the voice processor and the preprocessor, up to the first frame.     *)
(*                                                                         *)
(* A value is its origin: the file it was read from; a vector is the files *)
(* that pushed something.  Only the settings in SettingKeys have a value.  *)
(***************************************************************************)
EXTENDS Integers, Sequences

CONSTANTS
  Fields,     \* the keys in the order of the code, see ConfigKeys
  UserFiles,  \* contents the user's file may have ...
  BackupFiles \* ... and CONFIG_BACKUP_FILE_PATH

VARIABLES
  at,         \* where init_siren, and then the base, is
  status,     \* error_status of parseConfigFile
  source,     \* the file being read: "none", "user" or "backup"
  file,       \* its content
  pos,        \* the next of Fields
  cfg,        \* SirenConfig: origin of every field
  settings,   \* SirenConfig: the numbers the start depends on
  frameSize   \* bytes of a frame

vars == <<at, status, source, file, pos, cfg, settings, frameSize>>
fileVars == <<source, file, pos>>
configVars == <<cfg, settings>>

Sources == {"user", "backup"}
Keys == {Fields[i].key : i \in DOMAIN Fields}
SettingKeys == {"mic_num", "mic_channel_num", "mic_sample_rate", "mic_audio_byte",
                "mic_frame_length", "alg_aec"}

MicLists == {"alg_rs_mics", "alg_aec_mics", "alg_aec_ref_mics", "alg_sl_mics",
             "alg_mic_pos"}

Settings ==
  [mic_num : Nat, mic_channel_num : Nat, mic_sample_rate : Nat,
   mic_audio_byte : Nat, mic_frame_length : Nat, alg_aec : BOOLEAN]

\* A file cannot be read, is no JSON with the three sections ("garbled"), or is.  At
\* most one key is odd: missing or of another type ("bad"), or a vector without a
\* usable element ("empty").
File == [form : {"unreadable", "garbled", "json"}, odd : Keys \cup {"none"},
         how : {"bad", "empty"}, settings : Settings]
NoFile == [form |-> "unreadable", odd |-> "none", how |-> "bad",
           settings |-> [mic_num |-> 8, mic_channel_num |-> 8,
                         mic_sample_rate |-> 48000, mic_audio_byte |-> 4,
                         mic_frame_length |-> 10, alg_aec |-> TRUE]]

\* No key is read twice, and a file is a File.
ASSUME FieldsAssumption ==
  /\ Fields \in Seq([key : STRING, list : BOOLEAN,
                     lack : {"fail", "keep", "default"}])
  /\ \A i, j \in DOMAIN Fields : Fields[i].key = Fields[j].key => i = j
  /\ SettingKeys \cup MicLists \subseteq Keys
  /\ \A i \in DOMAIN Fields :
       Fields[i].key \in SettingKeys => ~Fields[i].list /\ Fields[i].lack = "fail"

ASSUME FilesAssumption == UserFiles \subseteq File /\ BackupFiles \subseteq File

Places == {"open", "backup", "sections", "keys", "loaded", "judge", "frames", "fork",
           "processor", "preprocessor", "listen",
           "aborted", "crashed", "silent", "refused", "asserted", "up"}

TypeOK ==
  /\ at \in Places
  /\ status \in {"OK", "PARSE_FAIL", "OPEN_FILE"}
  /\ source \in Sources \cup {"none"}
  /\ file \in File
  /\ pos \in 1..(Len(Fields) + 1)
  /\ cfg \in [Keys -> Seq(Sources)]
  /\ settings \in Settings
  /\ frameSize \in Nat

\* The member initialisers of SirenConfig.
Init ==
  /\ at = "open"
  /\ status = "OK"
  /\ source = "none"
  /\ file = NoFile
  /\ pos = 1
  /\ cfg = [k \in Keys |-> <<>>]
  /\ settings = NoFile.settings
  /\ frameSize = 0

-----------------------------------------------------------------------------
(* parseConfigFile.  updateConfigFile never finds a remote file: its body is    *)
(* disabled.                                                                    *)

\* Mutant of Load: the name of the file is not noted.
LoadNameless(from, content) ==
  /\ at' = "sections"
  /\ file' = content
  /\ pos' = 1
  /\ UNCHANGED source

Load(from, content) ==
  /\ at' = "sections"
  /\ source' = from
  /\ file' = content
  /\ pos' = 1

\* No path was given, or the user's file cannot be read: the backup, status still
\* OK.
OpenUser ==
  /\ at = "open"
  /\ \E f \in UserFiles :
       \/ /\ f.form = "unreadable"
          /\ at' = "backup"
          /\ UNCHANGED fileVars
       \/ /\ f.form # "unreadable"
          /\ Load("user", f)
  /\ UNCHANGED <<status, configVars, frameSize>>

\* Mutant of OpenBackup: the backup is read whatever became of the user's file.
OpenBackupAnyway ==
  /\ at = "backup"
  /\ \E f \in BackupFiles :
       \/ /\ f.form = "unreadable"
          /\ status' = "OPEN_FILE"
          /\ at' = "judge"
          /\ UNCHANGED fileVars
       \/ /\ f.form # "unreadable"
          /\ Load("backup", f)
          /\ status' = "OK"
  /\ UNCHANGED <<configVars, frameSize>>

\* The backup is read only while the status is OK: after a user file that failed it
\* is opened and left unread.
OpenBackup ==
  /\ at = "backup"
  /\ \E f \in BackupFiles :
       \/ /\ f.form = "unreadable"
          /\ status' = "OPEN_FILE"
          /\ at' = "judge"
          /\ UNCHANGED fileVars
       \/ /\ f.form # "unreadable" /\ status = "OK"
          /\ Load("backup", f)
          /\ UNCHANGED status
       \/ /\ f.form # "unreadable" /\ status # "OK"
          /\ at' = "judge"
          /\ UNCHANGED <<fileVars, status>>
  /\ UNCHANGED <<configVars, frameSize>>

\* loadConfigFromJSON has returned.
Loaded ==
  /\ at = "loaded"
  /\ at' = IF source = "user" /\ status # "OK" THEN "backup" ELSE "judge"
  /\ UNCHANGED <<status, fileVars, configVars, frameSize>>

\* abort(), also in the application's process.
Judge ==
  /\ at = "judge"
  /\ at' = IF status = "OK" THEN "frames" ELSE "aborted"
  /\ UNCHANGED <<status, fileVars, configVars, frameSize>>

-----------------------------------------------------------------------------
(* loadConfigFromJSON *)

Fail ==
  /\ at' = "loaded"
  /\ status' = "PARSE_FAIL"

\* The text is JSON and has its three sections, or nothing is stored.
FindSections ==
  /\ at = "sections"
  /\ \/ file.form = "json" /\ at' = "keys" /\ UNCHANGED status
     \/ file.form # "json" /\ Fail
  /\ UNCHANGED <<fileVars, configVars, frameSize>>

Odd(f, how) == file.odd = f.key /\ file.how = how

\* What a block stores: a vector grows, a value is replaced.
Stored(f) ==
  IF ~f.list THEN <<source>>
  ELSE IF Odd(f, "empty") THEN cfg[f.key]
  ELSE Append(cfg[f.key], source)

\* Mutant of ReadKey: a missing key is only warned about.
ReadKeyLenient ==
  /\ at = "keys" /\ pos \in DOMAIN Fields
  /\ LET f == Fields[pos] IN
       \/ /\ ~Odd(f, "bad")
          /\ cfg' = [cfg EXCEPT ![f.key] = Stored(f)]
          /\ settings' = IF f.key \in SettingKeys
                           THEN [settings EXCEPT ![f.key] = file.settings[f.key]]
                           ELSE settings
          /\ pos' = pos + 1
          /\ UNCHANGED <<at, status>>
       \/ /\ Odd(f, "bad")
          /\ pos' = pos + 1
          /\ UNCHANGED <<at, status, configVars>>
  /\ UNCHANGED <<source, file, frameSize>>

\* One block.  What earlier blocks stored stays when this one fails.
ReadKey ==
  /\ at = "keys" /\ pos \in DOMAIN Fields
  /\ LET f == Fields[pos] IN
       \/ /\ ~Odd(f, "bad")
          /\ cfg' = [cfg EXCEPT ![f.key] = Stored(f)]
          /\ settings' = IF f.key \in SettingKeys
                           THEN [settings EXCEPT ![f.key] = file.settings[f.key]]
                           ELSE settings
          /\ pos' = pos + 1
          /\ UNCHANGED <<at, status>>
       \/ /\ Odd(f, "bad") /\ f.lack = "fail"
          /\ Fail
          /\ UNCHANGED <<pos, configVars>>
       \/ /\ Odd(f, "bad") /\ f.lack # "fail"
          /\ cfg' = [cfg EXCEPT ![f.key] = IF f.lack = "default" THEN <<>> ELSE @]
          /\ pos' = pos + 1
          /\ UNCHANGED <<at, status, settings>>
  /\ UNCHANGED <<source, file, frameSize>>

KeysRead ==
  /\ at = "keys" /\ pos \notin DOMAIN Fields
  /\ at' = "loaded"
  /\ status' = "OK"
  /\ UNCHANGED <<fileVars, configVars, frameSize>>

-----------------------------------------------------------------------------
(* The size of a frame: RecordingThread and SirenBase compute it alike. *)

\* Frames in a second, rounded down.
FramesPerSecond(s) == 1000 \div s.mic_frame_length

\* Mutant of FrameSize: the bytes of a millisecond times the length.
FrameSizeByMs(s) ==
  ((s.mic_channel_num * s.mic_sample_rate * s.mic_audio_byte) \div 1000)
    * s.mic_frame_length

FrameSize(s) ==
  (s.mic_channel_num * s.mic_sample_rate * s.mic_audio_byte) \div FramesPerSecond(s)

\* A length of zero, or of more than a second, divides by zero in the application.
MakeFrameBuffers ==
  /\ at = "frames"
  /\ IF settings.mic_frame_length \in 1..1000
       THEN at' = "fork" /\ frameSize' = FrameSize(settings)
       ELSE at' = "crashed" /\ UNCHANGED frameSize
  /\ UNCHANGED <<status, fileVars, configVars>>

\* The base computes it again from its copy of the configuration.
ForkBase ==
  /\ at = "fork"
  /\ at' = "processor"
  /\ frameSize' = FrameSize(settings)
  /\ UNCHANGED <<status, fileVars, configVars>>

-----------------------------------------------------------------------------
(* The base sets up its two stages, the voice processor first. *)

Empty(key) == cfg[key] = <<>>

\* The positions, and the delays of the microphones that have one, are read without
\* a look at the length of their vectors.  A list that is empty makes init fail,
\* and then nobody is told: the main thread waits for a flag that stays down.
InitProcessor ==
  /\ at = "processor"
  /\ at' =
       IF settings.mic_num > 0
            /\ (Empty("alg_mic_pos")
                  \/ (~Empty("alg_need_i2s_delay_mics") /\ Empty("alg_i2s_delay_mics")))
         THEN "crashed"
       ELSE IF Empty("alg_aec_mics") \/ Empty("alg_sl_mics") THEN "silent"
       ELSE "preprocessor"
  /\ UNCHANGED <<status, fileVars, configVars, frameSize>>

\* The stages r2mem_rs2, r2mem_rdc, r2mem_aec and r2mem_o dereference the lists they
\* are given, and a list that is empty or that echo cancellation does not need is a
\* null pointer.
Memories ==
  /\ ~Empty("alg_rs_mics")
  /\ settings.alg_aec
  /\ ~Empty("alg_aec_mics")
  /\ ~Empty("alg_aec_ref_mics")

\* An unsupported input is refused, and the proxy told so.
InitPreprocessor ==
  /\ at = "preprocessor"
  /\ at' = IF settings.mic_num = 0 \/ settings.mic_audio_byte \notin {3, 4}
             THEN "refused"
           ELSE IF ~Memories THEN "crashed"
           ELSE "listen"
  /\ UNCHANGED <<status, fileVars, configVars, frameSize>>

\* r2mem_i::process asserts that a frame holds whole samples of all microphones.
FirstFrame ==
  /\ at = "listen"
  /\ at' = IF frameSize % (settings.mic_audio_byte * settings.mic_num) = 0
             THEN "up" ELSE "asserted"
  /\ UNCHANGED <<status, fileVars, configVars, frameSize>>

Next ==
  \/ OpenUser \/ OpenBackup \/ Loaded \/ Judge
  \/ FindSections \/ ReadKey \/ KeysRead
  \/ MakeFrameBuffers \/ ForkBase
  \/ InitProcessor \/ InitPreprocessor \/ FirstFrame

Spec == Init /\ [][Next]_vars

-----------------------------------------------------------------------------
(* Properties *)

\* A configuration comes from one file: nothing of a user file that failed half-way
\* is mixed with the backup, and no vector is filled twice.
ConfigFromOneFile ==
  \A k, l \in Keys :
    /\ Len(cfg[k]) <= 1
    /\ cfg[k] # <<>> /\ cfg[l] # <<>> => cfg[k] = cfg[l]

Accepted == at \notin {"open", "backup", "sections", "keys", "loaded", "judge",
                       "aborted"}

\* When parseConfigFile returns, every key that has no default was in the file; a
\* vector may still be empty, and only because the file's is.
NothingLeftUnset ==
  Accepted =>
    \A i \in DOMAIN Fields :
      LET f == Fields[i] IN
        f.lack = "fail" => cfg[f.key] = <<source>> \/ Odd(f, "empty")

\* Whole frames in a second and whole samples in a frame, of all the channels.
Regular(s) ==
  /\ s.mic_num = s.mic_channel_num
  /\ 1000 % s.mic_frame_length = 0
  /\ s.mic_sample_rate % FramesPerSecond(s) = 0

\* What a base that listens listens with.  With a regular configuration the assertion
\* on the first frame holds, whatever the number of microphones and the width of a
\* sample: a frame is cut between samples, so that no later frame gives a microphone
\* its neighbour's samples.  And echo is cancelled: there is no configuration in which
\* the base runs with alg_aec off or without reference channels, although the code has
\* branches for it.  (They are left by a crash.)
ListensProperly ==
  /\ at = "asserted" => ~Regular(settings)
  /\ at \in {"listen", "up", "asserted"} =>
       /\ settings.alg_aec
       /\ \A k \in MicLists : cfg[k] = <<source>>
=============================================================================
