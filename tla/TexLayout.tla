------------------------------ MODULE TexLayout ------------------------------
(* How the levels of a texture lie in a buffer (texture_layout.cpp): sizes  *)
(* in texels, offsets in bytes.                                             *)
EXTENDS TexFormats

CONSTANTS RowAlignment,   \* kBytesPerRowAlignment
          CopyAlignment   \* kBufferCopyAlignment

Extent(w, h, d) == [w |-> w, h |-> h, d |-> d]
\* Layers do not shrink with the level, slices of a volume do.
mipSizeFor(size, dimension, mip) ==
    LET half(n) == AtLeast1(n \div 2 ^ mip)
    IN  Extent(half(size.w), IF dimension = "1d" THEN size.h ELSE half(size.h), IF dimension = "3d" THEN half(size.d) ELSE size.d)
\* The size in whole blocks, which the copies of a level take.
physicalMipSize(size, format, dimension, mip) ==
    LET s == mipSizeFor(size, dimension, mip)  block == FormatInfo[format].block
    IN  [s EXCEPT !.w = alignToU32(s.w, block[1]), !.h = alignToU32(s.h, block[2])]
getTextureCopyLayout(format, dimension, size, mip) ==
    LET s == physicalMipSize(size, format, dimension, mip)
        rows == s.h \div FormatInfo[format].block[2]
        minBytesPerRow == (s.w \div FormatInfo[format].block[1]) * FormatInfo[format].bytes
        bytesPerRow == alignToU32(minBytesPerRow, RowAlignment)
    IN  [bytesPerRow |-> bytesPerRow, rowsPerImage |-> rows, mipSize |-> s,
         byteLength |-> alignToU32(bytesPerRow * rows * (s.d - 1) + bytesPerRow * (rows - 1) + minBytesPerRow, CopyAlignment)]
\* The bytes a copy of that size touches with that layout, and whether the copy may be made.
dataBytesForCopyOrFail(layout, format, size) ==
    LET block == FormatInfo[format].block
        rows == size.h \div block[2]
        lastRow == (size.w \div block[1]) * FormatInfo[format].bytes
    IN  [fails |-> \/ size.w % block[1] # 0 \/ size.h % block[2] # 0
                   \/ layout.bytesPerRow < lastRow \/ layout.bytesPerRow % RowAlignment # 0
                   \/ layout.rowsPerImage < rows,
         bytes |-> layout.bytesPerRow * layout.rowsPerImage * (size.d - 1) + layout.bytesPerRow * (rows - 1) + lastRow]
=============================================================================
