----------------------------- MODULE ConfigKeys -----------------------------
(***************************************************************************)
(* The keys loadConfigFromJSON (src/siren_config.cpp) reads, in its order. *)
(* Each stands for one unrolled block of that function: look the key up,   *)
(* test its type, store it.  A field that fills a vector pushes back and   *)
(* does not clear it first; "lack" says what the block does when the key   *)
(* is missing or has another type.                                         *)
(***************************************************************************)
EXTENDS Sequences

Field(key, list, lack) == [key |-> key, list |-> list, lack |-> lack]
Value(key) == Field(key, FALSE, "fail")      \* assigned; goto fail without it
List(key) == Field(key, TRUE, "fail")        \* appended to; goto fail without it
Choice(key) == Field(key, FALSE, "keep")     \* a warning and the old value

MicKeys ==
  <<Value("mic_num"), Value("mic_channel_num"), Value("mic_sample_rate"),
    Value("mic_audio_byte"), Value("mic_frame_length")>>

IpcKeys ==
  <<Value("siren_ipc"), Value("siren_channel_rmem"), Value("siren_channel_wmem"),
    Value("siren_input_err_retry_num"), Value("siren_input_err_retry_timeout"),
    Value("siren_monitor_udp_port")>>

AecKeys ==
  <<Value("alg_use_legacy_config_file"), Value("alg_legacy_config_file_path"),
    Value("alg_lan"), List("alg_rs_mics"), Value("alg_aec"), List("alg_aec_mics")>>

EchoKeys ==
  <<List("alg_aec_ref_mics"), Value("alg_aec_shield"), List("alg_aec_aff_cpus"),
    List("alg_aec_mat_aff_cpus")>>

StreamKeys ==
  <<Value("alg_raw_stream_sl_direction"), Value("alg_raw_stream_bf"),
    Value("alg_raw_stream_agc"), Value("alg_vt_enable"), Value("alg_vad_enable"),
    List("alg_vad_mics"), Value("alg_vad_baserange")>>

\* Without alg_bf_scaling the scaling is set to 1.
ShapeKeys ==
  <<Value("alg_vad_dynrange_min"), Value("alg_vad_dynrange_max"),
    Field("alg_bf_scaling", FALSE, "default"), List("alg_need_i2s_delay_mics"),
    List("alg_i2s_delay_mics"), List("alg_mic_pos")>>

BeamKeys ==
  <<List("alg_sl_mics"), List("alg_bf_mics"), Value("alg_opus_compress"),
    Value("alg_vt_phomod"), Value("alg_vt_dnnmod"),
    Value("alg_rs_delay_on_left_right_channel"), Value("raw_stream_channel_num"),
    Value("raw_stream_sample_rate"), Value("raw_stream_byte")>>

\* One DefVTConfig for each object of the array.
WordKeys == <<Field("alg_def_vt", TRUE, "keep")>>

DebugKeys ==
  <<Choice("debug_mic_array_record"), Choice("debug_pre_result_record"),
    Choice("debug_proc_result_record"), Choice("debug_rs_record"),
    Choice("debug_aec_record"), Choice("debug_bf_record"),
    Choice("debug_bf_raw_record"), Choice("debug_vad_record"),
    Choice("debug_opu_record"), Value("debug_record_path")>>

AllKeys ==
  MicKeys \o IpcKeys \o AecKeys \o EchoKeys \o StreamKeys \o ShapeKeys \o BeamKeys
    \o WordKeys \o DebugKeys
=============================================================================
