------------------------ MODULE MCTelemirrorClient ------------------------
(***************************************************************************)
(* Two HTML requests, one of them with a deadline, and a media request on  *)
(* one client with two attempts and two hosts.                             *)
(***************************************************************************)
EXTENDS TelemirrorClient

CONSTANTS page, pageInTime, image, nobody

MCRequests == {page, pageInTime, image}
MCMedia == {image}
MCDeadlined == {pageInTime}
=============================================================================
