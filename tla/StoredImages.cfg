\* Every stream of up to 44 bytes with every claimed payload size, then every stack
\* of up to three codings under every header.
SPECIFICATION ImageSpec
CONSTANTS
    Streams <- MCStreams
    MaxLen = 44
    MainStream <- MCMainStream
    Headers <- MCHeaders
    Bodies <- MCBodies
    MainHeaders <- MCMainHeaders
    MainBodies <- MCMainBodies
INVARIANTS ImageInv StaysInside ImageRecovered NothingGuessed
