--------------------------- MODULE MCSirenConfig ---------------------------
(* SirenConfig with the keys of the code, on a few files. *)
EXTENDS ConfigKeys, SirenConfig

\* Microphones, channels, rate, bytes, milliseconds, echo cancellation.
Board(n, c, r, b, l, aec) ==
  [mic_num |-> n, mic_channel_num |-> c, mic_sample_rate |-> r, mic_audio_byte |-> b,
   mic_frame_length |-> l, alg_aec |-> aec]

\* Every file under resource/ has the first.  Then: shorter samples and another rate,
\* lengths that do not divide a second, too long or zero, channels nobody listens
\* to, a width that is not supported, no echo cancellation, no microphone.
Usual == Board(8, 8, 48000, 4, 10, TRUE)
Boards ==
  {Usual, Board(6, 6, 44100, 3, 10, TRUE), Board(8, 8, 44100, 4, 20, TRUE),
   Board(8, 8, 48000, 4, 16, TRUE), Board(6, 8, 48000, 4, 10, TRUE),
   Board(7, 8, 48000, 4, 10, TRUE), Board(8, 8, 48000, 4, 2000, TRUE),
   Board(8, 8, 48000, 4, 0, TRUE), Board(8, 8, 48000, 2, 10, TRUE),
   Board(8, 8, 48000, 4, 10, FALSE), Board(0, 8, 48000, 4, 10, TRUE)}

Content(form, odd, how, board) ==
  [form |-> form, odd |-> odd, how |-> how, settings |-> board]

\* One thing is odd about a file: its form, one key, or its numbers.
AllFiles ==
  {Content(form, "none", "bad", Usual) : form \in {"unreadable", "garbled"}}
    \cup {Content("json", "none", "bad", b) : b \in Boards}
    \cup {Content("json", AllKeys[i].key, "bad", Usual) : i \in DOMAIN AllKeys}
    \cup {Content("json", f.key, "empty", Usual) :
            f \in {AllKeys[i] : i \in {j \in DOMAIN AllKeys : AllKeys[j].list}}}
=============================================================================
