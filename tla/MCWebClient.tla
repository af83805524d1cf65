---------------------------- MODULE MCWebClient ----------------------------
(***************************************************************************)
(* Three channels, a saved list of two, and three loads at a time.         *)
(***************************************************************************)
EXTENDS WebClient, TLC

CONSTANTS news, sport, music

MCChannels == {news, sport, music}

ChannelSymmetry == Permutations(MCChannels)
=============================================================================
