------------------------------ MODULE MCAudioRing ------------------------------
(* AudioRing for TLC; the sizes are in audio_song.cfg.                          *)
EXTENDS AudioRing
================================================================================
