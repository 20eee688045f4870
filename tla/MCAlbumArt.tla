----------------------------- MODULE MCAlbumArt ------------------------------
(* A picture of the device, one of the web, two requests of QML.            *)
EXTENDS AlbumArt

CONSTANTS local, web, r1, r2

MCUrls == {local, web}
MCLocalUrls == {local}
MCResponses == {r1, r2}
=============================================================================
