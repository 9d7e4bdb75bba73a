-------------------------- MODULE MCEntryLifecycle --------------------------
(* EntryLifecycle for TLC: push and LAN can each be turned on and off, and one *)
(* option is changed that needs no reload.                                    *)
EXTENDS EntryLifecycle

MCOptions == {{"live", "lan"}, {"lan"}, {"live"}, {"live", "lan", "scan"}}
=============================================================================
