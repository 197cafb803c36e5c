----------------------------- MODULE MCTexAccess -----------------------------
(* Formats of each kind, and the values of the tests of TexAccess, except   *)
(* where a texture of thousands of texels is made a small one.              *)
EXTENDS Integers, Sequences, TLC

LOCAL Kind(class, aspects, sample, block, bytes, volume) ==
    [class |-> class, aspects |-> aspects, sample |-> sample, block |-> block, bytes |-> bytes, volume |-> volume]
LOCAL Parts(type, bits, float, multisample, storage) ==
    [type |-> type, bits |-> bits, comps |-> 0 .. Len(bits) - 1, width |-> bits[1], float |-> float,
     multisample |-> multisample, storage |-> storage]
LOCAL Colour(sample, bytes) == Kind("uncompressed", {"color"}, sample, <<1, 1>>, bytes, FALSE)
LOCAL Eight == <<8, 8, 8, 8>>
MCFormatInfo ==
    [rgba8unorm |-> Colour("float", 4) @@ Parts("unorm", Eight, FALSE, TRUE, {"read", "write"}),
     bgra8unorm |-> Colour("float", 4) @@ Parts("unorm", Eight, FALSE, TRUE, {"write"}),
     rgba8uint |-> Colour("uint", 4) @@ Parts("uint", Eight, FALSE, TRUE, {}), \* only sampled here,
     rgba8sint |-> Colour("sint", 4) @@ Parts("sint", Eight, FALSE, TRUE, {}), \* r32uint is stored
     rgb10a2unorm |-> Colour("float", 4) @@ Parts("unorm", <<10, 10, 10, 2>>, FALSE, TRUE, {"read", "write"}),
     r8snorm |-> Colour("float", 1) @@ Parts("snorm", <<8>>, FALSE, FALSE, {"write"}),
     r8unorm |-> Colour("float", 1) @@ Parts("unorm", <<8>>, FALSE, TRUE, {}),
     rg8uint |-> Colour("uint", 2) @@ Parts("uint", <<8, 8>>, FALSE, TRUE, {}),
     r32float |-> Colour("float", 4) @@ Parts("float", <<32>>, TRUE, TRUE, {"read", "write", "read_write"}),
     r32uint |-> Colour("uint", 4) @@ Parts("uint", <<32>>, FALSE, FALSE, {"read", "write", "read_write"}),
     rgba32float |-> Colour("float", 16) @@ Parts("float", <<32, 32, 32, 32>>, TRUE, FALSE, {}),
     depth16unorm |-> Kind("uncompressed", {"depth"}, "float", <<1, 1>>, 2, FALSE) @@ Parts("unorm", <<16>>, FALSE, TRUE, {}),
     depth32float |-> Kind("uncompressed", {"depth"}, "float", <<1, 1>>, 4, FALSE) @@ Parts("float", <<32>>, TRUE, TRUE, {}),
     stencil8 |-> Kind("uncompressed", {"stencil"}, "uint", <<1, 1>>, 1, FALSE) @@ Parts("uint", <<8>>, FALSE, TRUE, {}),
     bc1 |-> Kind("bc", {"color"}, "float", <<4, 4>>, 8, TRUE) @@ Parts("unorm", Eight, FALSE, FALSE, {}),
     \* The two compressed formats the samplers take: their blocks are small, as their textures are.
     bc2 |-> Kind("bc", {"color"}, "float", <<2, 2>>, 16, TRUE) @@ Parts("unorm", Eight, FALSE, FALSE, {}),
     astc5x4 |-> Kind("astc", {"color"}, "float", <<3, 2>>, 16, TRUE) @@ Parts("unorm", Eight, FALSE, FALSE, {}),
     astc6x5 |-> Kind("astc", {"color"}, "float", <<6, 5>>, 16, TRUE) @@ Parts("unorm", Eight, FALSE, FALSE, {})]
      @@ ("depth32float-stencil8" :> (Kind("uncompressed", {"depth", "stencil"}, "float", <<1, 1>>, 5, FALSE)
                                        @@ Parts("float", <<32>>, TRUE, TRUE, {})))

\* Texels and levels next to each other differ by more than the tolerance of a load.
MCChannelValue(f, x, y, z, mip, k) == 5 * (x + 11 * y + 37 * z + 101 * mip + 3 * k)
MCPseudoRandom(i, salt, limit) == (i * 7 + salt * 5 + (i \div 3)) % limit
MCDevices == {{}, {"volumes", "storage-in-vertex", "storage-in-fragment"}}
ZeroAndOne == {<<0, 1>>}
=============================================================================
