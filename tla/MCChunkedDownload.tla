-------------------------- MODULE MCChunkedDownload --------------------------
EXTENDS ChunkedDownload
=============================================================================
