------------------------------ MODULE MCCamera ------------------------------
EXTENDS Camera

MCPictures == 0 .. LastPicture

=============================================================================
