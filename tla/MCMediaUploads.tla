--------------------------- MODULE MCMediaUploads ---------------------------
\* Two pages, of either client, and three files: a picture, a picture of a type
\* the API does not accept, and a sound.
EXTENDS MediaUploads
=============================================================================
